---------------------------- MODULE Spec2Model ----------------------------
(***************************************************************************)
(* A state-machine model of the furniture visualizer client:               *)
(*   - the 2D editor's data model (client/src/pages/Editor2D.jsx),          *)
(*   - the localStorage design store (client/src/services/designService.js)*)
(*   - the 3D viewer's scene and edits (client/src/pages/Viewer3D.jsx),     *)
(*   - the top-down preview generation of the 2D editor.                   *)
(* React state is modelled by variables that hold immutable values; an     *)
(* event handler together with the re-render and the effects it causes is  *)
(* one action; an await (a persistence call, an asset load) is a           *)
(* suspension point: the handler is split there into two actions.          *)
(* Coordinates are editor units.  Room and item sizes are kept even so     *)
(* that the halves the code computes are integers.                         *)
(***************************************************************************)
EXTENDS Integers, Sequences, FiniteSets, TLC

VARIABLES
  \* ---- clock (Date.now()) ----
  now,
  \* ---- Editor2D component state ----
  designId,       \* route parameter; NoDesign for a new design
  designName,
  roomConfig,
  furniture,      \* sequence of items
  selectedId,     \* NoSel for null
  saving,
  loading,
  edMounted,      \* FALSE after navigate('/') took the editor away
  edError,        \* exception thrown by the last editor handler ("none" if none)
  edNotice,       \* kind and text of the last notification of the editor
  saveCall,       \* the designService call saveDesign awaits
  fetchCall,      \* the designService.getDesign call fetchDesign awaits
  lastSave,       \* history: data model at the last saveDesign call, the record read back
                  \* from the store after its write, and whether the user edited meanwhile
  events,         \* history: number of user events the editor has handled
  \* ---- localStorage ----
  store,          \* value of localStorage['furniture_designs']
  userPresent,    \* localStorage['user'] is set
  \* ---- designService calls of any client (page, tab) ----
  svCalls,        \* the calls in flight, each with the list it read when called
  svLastCreate,   \* history: id and data of the createDesign that returned last
  svLastGet,      \* history: the last getDesign answer to a get that followed a create
  svError,        \* what the call that returned last threw ("none" if nothing)
  svIssued,       \* history: number of service calls made so far
  \* ---- Viewer3D component state ----
  vMounted,
  vDesignId,      \* route parameter of /viewer/:designId
  vLoading,
  vError,         \* the error state ('' is "")
  vDesign,        \* <<>> for null, else <<design>>
  selectedModelId,
  vFetchCall,     \* the getDesign call fetchDesign awaits
  vSaveCall,      \* the updateDesign call saveChanges awaits
  vNotice,        \* the last notification of the viewer
  vLastSave,      \* history: as lastSave, for saveChanges
  vLastEdit,      \* history: what the last move or rotate command did to node and item
  vEvents,        \* history: number of user events the viewer has handled
  \* ---- the three.js scene sceneRef.current refers to ----
  scBuilt,        \* sceneRef.current is set
  animateLoops,   \* the animate callbacks that keep requesting the next frame
  scNodes,        \* the furniture objects added to that scene
  scLoads,        \* indexes of the items whose loadModel for that scene is in flight
  scSel,          \* selectedModelId in the closure of the effect that built it
  scNew,          \* sceneRef.current changed since the last render read it
  clk,            \* the click listener on the container: registered, closure's selectedModelId
  \* ---- top-down previews of the 2D editor ----
  modelPreviews,      \* the keys of the modelPreviews state
  loadingPreviews,
  topDownImageCache,  \* the keys of the module-level cache
  pvRuns,             \* the generatePreviews runs that await a createTopDownImage
  pvFailed,           \* history: the keys whose latest finished production failed
  \* ---- the FurnitureItem components of the 2D editor ----
  furnitureItems,     \* per rendered item: imageUrl prop, image state, image loads
  \* ---- callers of modelService's lookups ----
  furnitureType,      \* the name the next lookup is called with
  lookups,            \* the lookups made: method, argument, returned values
  \* ---- modelService's cache ----
  modelCache,         \* the paths modelCache holds a model for
  preloadPos,         \* the path preloadModels awaits, 0 when it is not running
  \* ---- the toolbar state of the 3D viewer ----
  showWalls,
  showGrid,
  viewMode,
  vThrown             \* the exception the last handler ended with, "none" if none

edVars == <<designId, designName, roomConfig, furniture, selectedId, saving,
            loading, edMounted, edError, edNotice, saveCall, fetchCall, lastSave,
            events>>
stVars == <<store, userPresent>>
svVars == <<svCalls, svLastCreate, svLastGet, svError, svIssued>>
vwVars == <<vMounted, vDesignId, vLoading, vError, vDesign, selectedModelId,
            vFetchCall, vSaveCall, vNotice, vLastSave, vLastEdit, vEvents>>
scVars == <<scBuilt, animateLoops, scNodes, scLoads, scSel, scNew, clk>>
pvVars == <<modelPreviews, loadingPreviews, topDownImageCache, pvRuns, pvFailed>>
rdVars == <<furnitureItems>>
msVars == <<furnitureType, lookups>>
mcVars == <<modelCache, preloadPos>>
tbVars == <<showWalls, showGrid, viewMode, vThrown>>
vars == <<now, edVars, stVars, svVars, vwVars, scVars, pvVars, rdVars, msVars, mcVars, tbVars>>

\* what each page leaves alone
notEd == <<svVars, vwVars, scVars, pvVars, rdVars, msVars, mcVars, tbVars>>
notSv == <<edVars, vwVars, scVars, pvVars, rdVars, msVars, mcVars, tbVars>>
notVw == <<edVars, svVars, pvVars, rdVars, msVars, mcVars, tbVars>>
notTb == <<edVars, svVars, pvVars, rdVars, msVars, mcVars>>
notPv == <<svVars, vwVars, scVars, rdVars, msVars, mcVars, tbVars>>
notRd == <<svVars, vwVars, scVars, msVars, mcVars, tbVars>>
notMs == <<edVars, stVars, svVars, vwVars, scVars, pvVars, rdVars, mcVars, tbVars>>

-----------------------------------------------------------------------------
(* Bounds of the model *)
MaxClock == 3        \* Date.now() readings 1..MaxClock
MaxItems == 2        \* items in one furniture list
MaxDesigns == 2      \* designs in the store
MaxEvents == 4       \* user events handled in one editor session

(* Program constants *)
NoSel == 0           \* selectedId === null
NoDesign == 0        \* designId === undefined (new design)
RotateKeyStep == 15
RotateButtonStep == 90
FullTurn == 360
SliderMax == 360
SliderStep == 15
DefaultRoomWidth == 500
DefaultRoomHeight == 400

-----------------------------------------------------------------------------
(* JavaScript helpers *)

\* a % n of JavaScript: the result takes the sign of the dividend
JsRem(a, n) == IF a >= 0 THEN a % n ELSE 0 - ((0 - a) % n)

\* Array.prototype.findIndex and find, given for every element whether it satisfies
\* the predicate: the 1-based index of the first element that does; 0 stands for
\* -1 (findIndex) and for undefined (find)
FindIndex(hits) ==
  IF \E i \in 1..Len(hits) : hits[i]
  THEN CHOOSE i \in 1..Len(hits) : hits[i] /\ \A j \in 1..(i-1) : ~hits[j]
  ELSE 0

-----------------------------------------------------------------------------
(* Furniture catalog of the 2D editor *)
furnitureTypes ==
  << [type |-> "sofa",      name |-> "Sofa",      width |-> 120, height |-> 70,  fill |-> "#8B4513"],
     [type |-> "table",     name |-> "Table",     width |-> 80,  height |-> 80,  fill |-> "#A0522D"],
     [type |-> "bed",       name |-> "Bed",       width |-> 160, height |-> 200, fill |-> "#CD853F"],
     [type |-> "bookshelf", name |-> "Bookshelf", width |-> 60,  height |-> 120, fill |-> "#D2B48C"],
     [type |-> "dresser",   name |-> "Dresser",   width |-> 100, height |-> 50,  fill |-> "#8B4513"],
     [type |-> "plant",     name |-> "Plant",     width |-> 40,  height |-> 40,  fill |-> "#228B22"] >>

\* furnitureTypes.find(f => f.type === type) || furnitureTypes[0]
LookupType(type) ==
  LET hasType(f) == f.type = type
      found == FindIndex([i \in 1..Len(furnitureTypes) |-> hasType(furnitureTypes[i])])
  IN IF found = 0 THEN furnitureTypes[1] ELSE furnitureTypes[found]

InitialRoomConfig ==
  [width |-> DefaultRoomWidth, height |-> DefaultRoomHeight,
   color |-> "#F5F5DC", wallColor |-> "#F5F5F5"]



-----------------------------------------------------------------------------
(* Inputs of the 2D editor enumerated by the model *)
AddTypes == {"sofa", "plant", "wardrobe"}       \* "wardrobe" is not in the catalog
FillColors == {"#000000"}
RotationSlider == {d \in 0..SliderMax : d % SliderStep = 0}
SliderInputs == RotationSlider \cap {0, 345, 360}                  \* the slider positions the model tries
DragPositions == {<<-30, 10>>, <<380, 330>>}    \* Konva places no bound on a drag
TransformResults ==
  {[x |-> 10, y |-> 20, width |-> 240, height |-> 70, rotation |-> -45]}
RoomEdits == {<<"width", 300>>, <<"height", 200>>, <<"color", "#FFFFFF">>}
DesignNames == {"New Design", "Den"}
Keys == {"r", "Delete", "Backspace", "x"}
KeyTargets == {"BODY", "INPUT"}

NoCall == [op |-> "none"]
NoNotice == [type |-> "none", msg |-> "none"]
NoSave == [atCall |-> <<>>, written |-> <<>>, editedSince |-> FALSE]

-----------------------------------------------------------------------------
(* Editor2D: the furniture list *)

NoticeAsInfo(type, msg) == [type |-> "info", msg |-> msg]

Notice(type, msg) == [type |-> type, msg |-> msg]

\* the controls of the page are rendered (not the loading spinner)
EditorShown == edMounted /\ ~loading

\* one more user event is handled
UserEvent == events < MaxEvents /\ events' = events + 1

\* const selectedItem = selectedId ? furniture.find(item => item.id === selectedId) : null
SelectedIndex ==
  LET isSel(item) == item.id = selectedId
  IN IF selectedId = NoSel THEN 0 ELSE FindIndex([i \in 1..Len(furniture) |-> isSel(furniture[i])])

HasSelectedItem == SelectedIndex # 0
SelectedItem == furniture[SelectedIndex]

\* the item addFurniture builds
NewItem(type, clock, room) ==
  LET ft == LookupType(type)
  IN [id |-> clock,
      x |-> (room.width \div 2) - (ft.width \div 2),
      y |-> (room.height \div 2) - (ft.height \div 2),
      width |-> ft.width, height |-> ft.height,
      fill |-> ft.fill, name |-> ft.name, rotation |-> 0]

\* furniture.map(item => item.id === selectedId ? { ...item, fill: color } : item)
WithColor(list, id, color) ==
  LET upd(item) == IF item.id = id THEN [item EXCEPT !.fill = color] ELSE item
  IN [i \in 1..Len(list) |-> upd(list[i])]

\* furniture.map(item => item.id === selectedId ? { ...item, rotation: degrees } : item)
WithRotation(list, id, degrees) ==
  LET upd(item) == IF item.id = id THEN [item EXCEPT !.rotation = degrees] ELSE item
  IN [i \in 1..Len(list) |-> upd(list[i])]

\* furniture.filter(item => item.id !== selectedId)
WithoutItem(list, id) ==
  LET keep(item) == item.id # id
  IN SelectSeq(list, keep)

\* onDragEnd: furniture.map(f => f.id === item.id ? { ...f, x, y } : f)
WithPosition(list, id, pos) ==
  LET upd(f) == IF f.id = id THEN [f EXCEPT !.x = pos[1], !.y = pos[2]] ELSE f
  IN [i \in 1..Len(list) |-> upd(list[i])]

\* onTransformEnd: x, y, width, height and rotation are read from the Konva node
WithTransform(list, id, node) ==
  LET upd(f) == IF f.id = id
                THEN [f EXCEPT !.x = node.x, !.y = node.y, !.width = node.width,
                               !.height = node.height, !.rotation = node.rotation]
                ELSE f
  IN [i \in 1..Len(list) |-> upd(list[i])]

Tick ==
  /\ UNCHANGED notEd
  /\ now < MaxClock
  /\ now' = now + 1
  /\ UNCHANGED <<edVars, stVars>>

\* addFurniture and the render after it, but for the effects on [furniture]
addFurnitureEdit(type) ==
  /\ UserEvent
  /\ EditorShown
  /\ Len(furniture) < MaxItems
  /\ LET newItem == NewItem(type, now, roomConfig)
     IN /\ furniture' = Append(furniture, newItem)
        /\ selectedId' = newItem.id
        /\ edNotice' = Notice("info", "Added")
  /\ edError' = "none"
  /\ UNCHANGED <<now, designId, designName, roomConfig, saving, loading, edMounted,
                 saveCall, fetchCall, lastSave, stVars>>

\* "Add Furniture" of the catalog panel
addFurniture(type) == UNCHANGED notEd /\ addFurnitureEdit(type)

\* onSelect = setSelectedId, called with the id of the clicked item
onSelect(id) ==
  /\ UNCHANGED notEd
  /\ UserEvent
  /\ EditorShown
  /\ \E i \in 1..Len(furniture) : furniture[i].id = id
  /\ selectedId' = id
  /\ edError' = "none"
  /\ UNCHANGED <<now, designId, designName, roomConfig, furniture, saving, loading,
                 edMounted, edNotice, saveCall, fetchCall, lastSave, stVars>>

\* a mouse-down on the stage background
checkDeselect ==
  /\ UNCHANGED notEd
  /\ UserEvent
  /\ EditorShown
  /\ selectedId' = NoSel
  /\ edError' = "none"
  /\ UNCHANGED <<now, designId, designName, roomConfig, furniture, saving, loading,
                 edMounted, edNotice, saveCall, fetchCall, lastSave, stVars>>

\* the state updateFurnitureColor leaves
ColorUpdate(color) ==
  furniture' = IF selectedId = NoSel THEN furniture
               ELSE WithColor(furniture, selectedId, color)

\* the state updateFurnitureRotation leaves
RotationUpdate(degrees) ==
  furniture' = IF selectedId = NoSel THEN furniture
               ELSE WithRotation(furniture, selectedId, degrees)

\* the state deleteSelected leaves; itemToDelete.name throws when the find found nothing
DeleteUpdate ==
  IF selectedId = NoSel
  THEN /\ UNCHANGED <<furniture, selectedId, edNotice>>
       /\ edError' = "none"
  ELSE /\ furniture' = WithoutItem(furniture, selectedId)
       /\ selectedId' = NoSel
       /\ IF ~HasSelectedItem
          THEN /\ edError' = "TypeError"
               /\ UNCHANGED edNotice
          ELSE /\ edError' = "none"
               /\ edNotice' = Notice("info", "Deleted")

\* updateFurnitureColor and the render after it, but for the effects on [furniture]
updateFurnitureColorEdit(color) ==
  /\ UserEvent
  /\ EditorShown
  /\ HasSelectedItem
  /\ ColorUpdate(color)
  /\ edError' = "none"
  /\ UNCHANGED <<now, designId, designName, roomConfig, selectedId, saving, loading,
                 edMounted, edNotice, saveCall, fetchCall, lastSave, stVars>>

\* updateFurnitureRotation and the render after it, but for the effects on [furniture]
RotationSliderChangeEdit(degrees) ==
  /\ UserEvent
  /\ EditorShown
  /\ HasSelectedItem
  /\ RotationUpdate(degrees)
  /\ edError' = "none"
  /\ UNCHANGED <<now, designId, designName, roomConfig, selectedId, saving, loading,
                 edMounted, edNotice, saveCall, fetchCall, lastSave, stVars>>

\* the color input of the selected item's panel
updateFurnitureColor(color) == UNCHANGED notEd /\ updateFurnitureColorEdit(color)

\* the rotation range input (min 0, max 360, step 15) of the selected item's panel
RotationSliderChange(degrees) == UNCHANGED notEd /\ RotationSliderChangeEdit(degrees)

\* the "Rotate 90" button of the selected item's panel
Rotate90Click ==
  /\ UNCHANGED notEd
  /\ UserEvent
  /\ EditorShown
  /\ HasSelectedItem
  /\ RotationUpdate(JsRem(SelectedItem.rotation + RotateButtonStep, FullTurn))
  /\ edError' = "none"
  /\ UNCHANGED <<now, designId, designName, roomConfig, selectedId, saving, loading,
                 edMounted, edNotice, saveCall, fetchCall, lastSave, stVars>>

\* deleteSelected and the render after it, but for the effects on [furniture]
DeleteClickEdit ==
  /\ UserEvent
  /\ EditorShown
  /\ HasSelectedItem
  /\ DeleteUpdate
  /\ UNCHANGED <<now, designId, designName, roomConfig, saving, loading, edMounted,
                 saveCall, fetchCall, lastSave, stVars>>

\* the "Delete Item" button of the selected item's panel
DeleteClick == UNCHANGED notEd /\ DeleteClickEdit

\* handleKeyDown of the editor, a listener on window: it does not look at e.target
EditorKeyDown(key, target) ==
  /\ UNCHANGED notEd
  /\ UserEvent
  /\ edMounted
  /\ IF selectedId = NoSel
     THEN /\ UNCHANGED <<furniture, selectedId, edNotice>>
          /\ edError' = "none"
     ELSE IF key = "r"
     THEN /\ RotationUpdate(JsRem((IF ~HasSelectedItem THEN 0
                                   ELSE SelectedItem.rotation) + RotateKeyStep, FullTurn))
          /\ edError' = "none"
          /\ UNCHANGED <<selectedId, edNotice>>
     ELSE IF key \in {"Delete", "Backspace"}
     THEN DeleteUpdate
     ELSE /\ UNCHANGED <<furniture, selectedId, edNotice>>
          /\ edError' = "none"
  /\ UNCHANGED <<now, designId, designName, roomConfig, saving, loading, edMounted,
                 saveCall, fetchCall, lastSave, stVars>>

onDragEnd(id, pos) ==
  /\ UNCHANGED notEd
  /\ UserEvent
  /\ EditorShown
  /\ \E i \in 1..Len(furniture) : furniture[i].id = id
  /\ furniture' = WithPosition(furniture, id, pos)
  /\ edError' = "none"
  /\ UNCHANGED <<now, designId, designName, roomConfig, selectedId, saving, loading,
                 edMounted, edNotice, saveCall, fetchCall, lastSave, stVars>>

onTransformEnd(id, node) ==
  /\ UNCHANGED notEd
  /\ UserEvent
  /\ EditorShown
  /\ \E i \in 1..Len(furniture) : furniture[i].id = id
  /\ furniture' = WithTransform(furniture, id, node)
  /\ edError' = "none"
  /\ UNCHANGED <<now, designId, designName, roomConfig, selectedId, saving, loading,
                 edMounted, edNotice, saveCall, fetchCall, lastSave, stVars>>

\* the room settings inputs: setRoomConfig({...roomConfig, [field]: value})
SetRoomConfig(field, value) ==
  /\ UNCHANGED notEd
  /\ UserEvent
  /\ EditorShown
  /\ roomConfig' = [roomConfig EXCEPT ![field] = value]
  /\ edError' = "none"
  /\ UNCHANGED <<now, designId, designName, furniture, selectedId, saving, loading,
                 edMounted, edNotice, saveCall, fetchCall, lastSave, stVars>>

\* the Design Name input
SetDesignName(name) ==
  /\ UNCHANGED notEd
  /\ UserEvent
  /\ EditorShown
  /\ designName' = name
  /\ edError' = "none"
  /\ UNCHANGED <<now, designId, roomConfig, furniture, selectedId, saving, loading,
                 edMounted, edNotice, saveCall, fetchCall, lastSave, stVars>>

-----------------------------------------------------------------------------
(* designService over localStorage['furniture_designs'] *)

\* JSON.stringify of an item: the values of its keys, in insertion order
StringifyItem(item) ==
  <<item.id, item.x, item.y, item.width, item.height, item.fill, item.name,
    item.rotation>>

ParseItem(t) ==
  [id |-> t[1], x |-> t[2], y |-> t[3], width |-> t[4], height |-> t[5],
   fill |-> t[6], name |-> t[7], rotation |-> t[8]]

StringifyRoom(room) == <<room.width, room.height, room.color, room.wallColor>>

ParseRoom(t) == [width |-> t[1], height |-> t[2], color |-> t[3], wallColor |-> t[4]]

\* JSON.stringify of a design record
StringifyDesign(d) ==
  <<d.id, d.name, StringifyRoom(d.roomConfig),
    [i \in 1..Len(d.furniture) |-> StringifyItem(d.furniture[i])],
    d.lastModified, d.userId>>

ParseDesign(t) ==
  [id |-> t[1], name |-> t[2], roomConfig |-> ParseRoom(t[3]),
   furniture |-> [i \in 1..Len(t[4]) |-> ParseItem(t[4][i])],
   lastModified |-> t[5], userId |-> t[6]]

\* JSON.stringify(designs), the value localStorage.setItem stores
Stringify(designs) == [i \in 1..Len(designs) |-> StringifyDesign(designs[i])]

\* getDesigns: designs ? JSON.parse(designs) : []   (an absent key reads as the
\* empty list, which is how the model starts the store)
GetDesigns(storage) == [i \in 1..Len(storage) |-> ParseDesign(storage[i])]

\* { ...a, ...b }
Spread(a, b) ==
  [k \in (DOMAIN a) \cup (DOMAIN b) |-> IF k \in DOMAIN b THEN b[k] ELSE a[k]]

\* getDesign: designs.find(d => d.id === id); 0 makes it throw 'Design not found'
GetDesignFind(designs, id) ==
  LET hasId(d) == d.id = id
  IN FindIndex([i \in 1..Len(designs) |-> hasId(designs[i])])

\* createDesign: { id: Date.now().toString(), ...designData, lastModified, userId }
NewDesign(designData, clock) ==
  Spread(Spread([id |-> clock], designData), [lastModified |-> clock, userId |-> "u1"])

\* createDesign: [...designs, newDesign]
CreateDesignList(designs, designData, clock) ==
  Append(designs, NewDesign(designData, clock))

\* a findIndex that answers the last index for an id the list does not hold
UpdateDesignIndexOrLast(designs, id) ==
  LET hasId(d) == d.id = id
      at == FindIndex([i \in 1..Len(designs) |-> hasId(designs[i])])
  IN IF at = 0 THEN Len(designs) ELSE at

\* updateDesign: designs.findIndex(d => d.id === id); 0 makes it throw 'Design not found'
UpdateDesignIndex(designs, id) ==
  LET hasId(d) == d.id = id
  IN FindIndex([i \in 1..Len(designs) |-> hasId(designs[i])])

UpdatedDesignStoredWins(old, designData, clock) ==
  Spread(Spread(designData, old), [lastModified |-> clock])

\* updateDesign: { ...designs[index], ...designData, lastModified }
UpdatedDesign(old, designData, clock) ==
  Spread(Spread(old, designData), [lastModified |-> clock])

\* updateDesign: designs[index] = updatedDesign
UpdateDesignList(designs, index, designData, clock) ==
  [designs EXCEPT ![index] = UpdatedDesign(designs[index], designData, clock)]

\* deleteDesign: designs.filter(d => d.id !== id)
DeleteDesignList(designs, id) ==
  LET keep(d) == d.id # id
  IN SelectSeq(designs, keep)

-----------------------------------------------------------------------------
(* Editor2D: loading and saving *)

\* saveDesign: const designData = { name: designName, roomConfig, furniture }
DesignData == [name |-> designName, roomConfig |-> roomConfig, furniture |-> furniture]

\* the effect on [designId]: fetchDesign runs when the route names a design
FetchStart(id) ==
  IF id = NoDesign
  THEN UNCHANGED <<loading, fetchCall>>
  ELSE /\ loading' = TRUE
       /\ fetchCall' = [op |-> "get", id |-> id, designs |-> GetDesigns(store)]

\* saveDesign up to its await: designService reads the store when it is called
SaveDesignCall ==
  /\ UNCHANGED notEd
  /\ UserEvent
  /\ EditorShown
  /\ ~saving
  /\ saveCall = NoCall
  /\ saving' = TRUE
  /\ saveCall' = IF designId = NoDesign
                 THEN [op |-> "create", data |-> DesignData,
                       designs |-> GetDesigns(store)]
                 ELSE [op |-> "update", id |-> designId, data |-> DesignData,
                       designs |-> GetDesigns(store)]
  /\ lastSave' = [atCall |-> <<DesignData>>, written |-> <<>>, editedSince |-> FALSE]
  /\ edError' = "none"
  /\ UNCHANGED <<now, designId, designName, roomConfig, furniture, selectedId,
                 loading, edMounted, edNotice, fetchCall, userPresent, store>>

\* createDesign resumes; saveDesign shows the result and navigates to the new design
SaveCreateReturn ==
  /\ UNCHANGED notEd
  /\ UNCHANGED events
  /\ edMounted
  /\ saveCall.op = "create"
  /\ Len(saveCall.designs) < MaxDesigns
  /\ saveCall' = NoCall
  /\ saving' = FALSE
  /\ edError' = "none"
  /\ IF userPresent
     THEN LET newDesign == NewDesign(saveCall.data, now)
          IN /\ store' = Stringify(CreateDesignList(saveCall.designs, saveCall.data, now))
             /\ lastSave' = [lastSave EXCEPT
                            !.written = <<GetDesigns(store')[Len(store')]>>,
                            !.editedSince = (DesignData # saveCall.data)]
             /\ edNotice' = Notice("success", "Design saved successfully!")
             /\ designId' = newDesign.id
             /\ IF fetchCall = NoCall
                THEN /\ loading' = TRUE
                     /\ fetchCall' = [op |-> "get", id |-> newDesign.id,
                                      designs |-> GetDesigns(store')]
                ELSE UNCHANGED <<loading, fetchCall>>
     ELSE /\ edNotice' = Notice("error", "Failed to save design. Please try again.")
          /\ UNCHANGED <<store, lastSave, designId, loading, fetchCall>>
  /\ UNCHANGED <<now, designName, roomConfig, furniture, selectedId, edMounted,
                 userPresent>>

\* updateDesign resumes; saveDesign shows the result
SaveUpdateReturn ==
  /\ UNCHANGED notEd
  /\ UNCHANGED events
  /\ edMounted
  /\ saveCall.op = "update"
  /\ saveCall' = NoCall
  /\ saving' = FALSE
  /\ edError' = "none"
  /\ LET index == UpdateDesignIndex(saveCall.designs, saveCall.id)
     IN IF index # 0
        THEN /\ store' = Stringify(UpdateDesignList(saveCall.designs, index,
                                                    saveCall.data, now))
             /\ lastSave' = [lastSave EXCEPT
                            !.written = <<GetDesigns(store')[index]>>,
                            !.editedSince = (DesignData # saveCall.data)]
             /\ edNotice' = Notice("success", "Design updated successfully!")
        ELSE /\ edNotice' = Notice("error", "Failed to save design. Please try again.")
             /\ UNCHANGED <<store, lastSave>>
  /\ UNCHANGED <<now, designId, designName, roomConfig, furniture, selectedId,
                 loading, edMounted, fetchCall, userPresent>>

\* getDesign resumes; fetchDesign sets the design data, or reports and leaves the page
FetchReturn ==
  /\ UNCHANGED notEd
  /\ UNCHANGED events
  /\ edMounted
  /\ fetchCall.op = "get"
  /\ fetchCall' = NoCall
  /\ loading' = FALSE
  /\ edError' = "none"
  /\ LET found == GetDesignFind(fetchCall.designs, fetchCall.id)
         design == fetchCall.designs[found]
     IN IF found # 0
        THEN /\ designName' = design.name
             /\ roomConfig' = design.roomConfig
             /\ furniture' = design.furniture
             /\ UNCHANGED <<edNotice, edMounted>>
        ELSE /\ edNotice' = Notice("error", "Could not load the design")
             /\ edMounted' = FALSE
             /\ UNCHANGED <<designName, roomConfig, furniture>>
  /\ UNCHANGED <<now, designId, selectedId, saving, saveCall, lastSave, stVars>>

\* the route changes to /editor/:id while the editor stays mounted (one route, App.jsx)
NavigateTo(id) ==
  /\ UNCHANGED notEd
  /\ UserEvent
  /\ edMounted
  /\ fetchCall = NoCall
  /\ id # designId
  /\ designId' = id
  /\ FetchStart(id)
  /\ edError' = "none"
  /\ UNCHANGED <<now, designName, roomConfig, furniture, selectedId, saving,
                 edMounted, edNotice, saveCall, lastSave, stVars>>

\* authService.logout in another tab
Logout ==
  /\ UNCHANGED notEd
  /\ userPresent
  /\ userPresent' = FALSE
  /\ UNCHANGED <<now, edVars, store>>

\* Dashboard of another tab: designService.deleteDesign(id), run to completion
DashboardDelete(id) ==
  /\ UNCHANGED notEd
  /\ \E i \in 1..Len(GetDesigns(store)) : GetDesigns(store)[i].id = id
  /\ store' = Stringify(DeleteDesignList(GetDesigns(store), id))
  /\ UNCHANGED <<now, edVars, userPresent>>

-----------------------------------------------------------------------------
(* The 2D editor opened on a new design, with an empty store *)

StoredIds == {GetDesigns(store)[i].id : i \in 1..Len(GetDesigns(store))}
ItemIds == {furniture[i].id : i \in 1..Len(furniture)}



-----------------------------------------------------------------------------
(* designService called by any client: each async method reads localStorage when  *)
(* it is called (getDesigns has no await before the read) and resumes later       *)

MaxCalls == 2        \* service calls in flight
MaxIssued == 3       \* service calls made in one run

\* one more call is made
Issue == Len(svCalls) < MaxCalls /\ svIssued < MaxIssued /\ svIssued' = svIssued + 1

\* design data a client passes to createDesign and updateDesign
ServiceData ==
  { [name |-> "Den", roomConfig |-> InitialRoomConfig,
     furniture |-> <<NewItem("sofa", 1, InitialRoomConfig)>>],
    [name |-> "Hall", roomConfig |-> [InitialRoomConfig EXCEPT !.width = 300],
     furniture |-> <<NewItem("plant", 1, InitialRoomConfig),
                     [NewItem("sofa", 2, InitialRoomConfig) EXCEPT !.rotation = 90]>>] }

RemoveAt(seq, i) == [j \in 1..(Len(seq) - 1) |-> IF j < i THEN seq[j] ELSE seq[j + 1]]

createDesignCall(data) ==
  /\ Issue
  /\ svCalls' = Append(svCalls, [op |-> "create", data |-> data,
                                 designs |-> GetDesigns(store)])
  /\ UNCHANGED <<now, stVars, svLastCreate, svLastGet, svError, notSv>>

createDesignReturn(i) ==
  /\ UNCHANGED svIssued
  /\ svCalls[i].op = "create"
  /\ Len(svCalls[i].designs) < MaxDesigns
  /\ svCalls' = RemoveAt(svCalls, i)
  /\ IF userPresent
     THEN /\ store' = Stringify(CreateDesignList(svCalls[i].designs, svCalls[i].data, now))
          /\ svLastCreate' = <<[id |-> NewDesign(svCalls[i].data, now).id,
                                data |-> svCalls[i].data]>>
          /\ svError' = "none"
     ELSE /\ svError' = "TypeError"
          /\ UNCHANGED <<store, svLastCreate>>
  /\ UNCHANGED <<now, userPresent, svLastGet, notSv>>

\* getDesign(id); a get that directly follows a createDesign remembers what was created
getDesignCall(id) ==
  /\ Issue
  /\ svCalls' = Append(svCalls,
       [op |-> "get", id |-> id, designs |-> GetDesigns(store),
        created |-> IF svLastCreate # <<>> /\ svLastCreate[1].id = id
                    THEN <<svLastCreate[1].data>> ELSE <<>>])
  /\ UNCHANGED <<now, stVars, svLastCreate, svLastGet, svError, notSv>>

getDesignReturn(i) ==
  /\ UNCHANGED svIssued
  /\ svCalls[i].op = "get"
  /\ svCalls' = RemoveAt(svCalls, i)
  /\ LET found == GetDesignFind(svCalls[i].designs, svCalls[i].id)
     IN /\ svError' = IF found = 0 THEN "Design not found" ELSE "none"
        /\ svLastGet' = IF svCalls[i].created = <<>> THEN svLastGet
                        ELSE [created |-> svCalls[i].created,
                              got |-> IF found = 0 THEN <<>>
                                      ELSE <<svCalls[i].designs[found]>>]
  /\ UNCHANGED <<now, stVars, svLastCreate, notSv>>

updateDesignCall(id, data) ==
  /\ Issue
  /\ svCalls' = Append(svCalls, [op |-> "update", id |-> id, data |-> data,
                                 designs |-> GetDesigns(store)])
  /\ UNCHANGED <<now, stVars, svLastCreate, svLastGet, svError, notSv>>

updateDesignReturn(i) ==
  /\ UNCHANGED svIssued
  /\ svCalls[i].op = "update"
  /\ svCalls' = RemoveAt(svCalls, i)
  /\ LET index == UpdateDesignIndex(svCalls[i].designs, svCalls[i].id)
     IN IF index # 0
        THEN /\ store' = Stringify(UpdateDesignList(svCalls[i].designs, index,
                                                    svCalls[i].data, now))
             /\ svLastCreate' = <<>>
             /\ svError' = "none"
        ELSE /\ svError' = "Design not found"
             /\ UNCHANGED <<store, svLastCreate>>
  /\ UNCHANGED <<now, userPresent, svLastGet, notSv>>

deleteDesignCall(id) ==
  /\ Issue
  /\ svCalls' = Append(svCalls, [op |-> "delete", id |-> id,
                                 designs |-> GetDesigns(store)])
  /\ UNCHANGED <<now, stVars, svLastCreate, svLastGet, svError, notSv>>

deleteDesignReturn(i) ==
  /\ UNCHANGED svIssued
  /\ svCalls[i].op = "delete"
  /\ svCalls' = RemoveAt(svCalls, i)
  /\ store' = Stringify(DeleteDesignList(svCalls[i].designs, svCalls[i].id))
  /\ svLastCreate' = <<>>
  /\ svError' = "none"
  /\ UNCHANGED <<now, userPresent, svLastGet, notSv>>

-----------------------------------------------------------------------------
(* Viewer3D: the scene *)

MaxViewerEvents == 4   \* user events handled in one viewer session

\* const scale = 0.02, in hundredths; world coordinates are kept in hundredths
Scale100 == 2
MoveDistance == 10
RotateStep == 15

\* pending: the loads of the scene that had not returned when the command ran
NoEdit == [kind |-> "none", node |-> <<>>, item |-> <<>>, room |-> <<>>,
           pending |-> {}]

\* item.rotation || 0
RotationOrZero(item) == item.rotation

\* loadModel: (item.x * scale) - (roomWidth / 2) + (item.width * scale / 2), where
\* roomWidth = design.roomConfig.width * scale
LoadWorld(e, roomDim, itemDim) ==
  (e * Scale100) - ((roomDim * Scale100) \div 2) + ((itemDim * Scale100) \div 2)

\* a conversion that places the item's corner, not its centre
MoveWorldOfCorner(e, roomDim, itemDim) ==
  (e * Scale100) - ((roomDim * Scale100) \div 2)

\* moveSelectedFurniture: (newX * scale) - (roomWidth / 2) + (item.width * scale / 2)
MoveWorld(e, roomDim, itemDim) ==
  (e * Scale100) - ((roomDim * Scale100) \div 2) + ((itemDim * Scale100) \div 2)

\* the model loadModel adds to the scene: tagged with the item id, highlighted when
\* the effect's selectedModelId is the item, placed and rotated from the item
ModelNode(idx, item, room, sel) ==
  [idx |-> idx, itemId |-> item.id, box |-> FALSE,
   x |-> LoadWorld(item.x, room.width, item.width),
   z |-> LoadWorld(item.y, room.height, item.height),
   rot |-> RotationOrZero(item),
   emissive |-> (sel = item.id),
   w |-> 0, d |-> 0]

\* a box that takes the item's width for both of its sides
BoxNodeSquare(idx, item, room) ==
  [idx |-> idx, itemId |-> 0, box |-> TRUE,
   x |-> LoadWorld(item.x, room.width, item.width),
   z |-> LoadWorld(item.y, room.height, item.height),
   rot |-> 0,
   emissive |-> FALSE,
   w |-> item.width * Scale100, d |-> item.width * Scale100]

\* the box loadModel adds when the asset fails to load: no userData, no rotation
BoxNode(idx, item, room) ==
  [idx |-> idx, itemId |-> 0, box |-> TRUE,
   x |-> LoadWorld(item.x, room.width, item.width),
   z |-> LoadWorld(item.y, room.height, item.height),
   rot |-> 0,
   emissive |-> FALSE,
   w |-> item.width * Scale100, d |-> item.height * Scale100]

ModelFoundAlways(nodes, id) == TRUE

\* sceneRef.current.traverse(child => child.userData.itemId === selectedModelId ...)
ModelFound(nodes, id) == \E n \in nodes : n.itemId = id

\* the traversal that clears the emissive tint of the nodes tagged id
ClearHighlight(nodes, id) ==
  IF id = NoSel THEN nodes
  ELSE {IF n.itemId = id THEN [n EXCEPT !.emissive = FALSE] ELSE n : n \in nodes}

\* foundModel.traverse(child => child.material.emissive = 0x333333)
Highlight(nodes, idx) ==
  {IF n.idx = idx THEN [n EXCEPT !.emissive = TRUE] ELSE n : n \in nodes}

\* moveSelectedFurniture: the switch on direction
MovedX(item, room, direction) ==
  CASE direction = "left"  -> IF item.x - MoveDistance > 0 THEN item.x - MoveDistance ELSE 0
    [] direction = "right" -> IF room.width - item.width < item.x + MoveDistance
                              THEN room.width - item.width ELSE item.x + MoveDistance
    [] OTHER -> item.x

MovedY(item, room, direction) ==
  CASE direction = "up"    -> IF item.y - MoveDistance > 0 THEN item.y - MoveDistance ELSE 0
    [] direction = "down"  -> IF room.height - item.height < item.y + MoveDistance
                              THEN room.height - item.height ELSE item.y + MoveDistance
    [] OTHER -> item.y

\* a rotation step that does not wrap
RotatedByNoWrap(item, degrees) == RotationOrZero(item) + degrees

\* rotateSelectedFurniture: (currentRotation + degrees) % 360, plus 360 when negative
RotatedBy(item, degrees) ==
  LET r == JsRem(RotationOrZero(item) + degrees, FullTurn)
  IN IF r < 0 THEN r + FullTurn ELSE r

ViewerShown == vMounted /\ ~vLoading /\ vError = "" /\ vDesign # <<>>

ViewerEvent == vEvents < MaxViewerEvents /\ vEvents' = vEvents + 1

\* the index of the selected item in design.furniture (0 for -1)
ViewerSelectedIndex ==
  LET isSel(item) == item.id = selectedModelId
  IN FindIndex([i \in 1..Len(vDesign[1].furniture) |-> isSel(vDesign[1].furniture[i])])

\* the scene effect after one of its dependencies changed: the cleanup leaves the
\* old scene behind, a new scene becomes sceneRef.current and loadAllModels starts
\* one loadModel for every item of the design
SceneEffect ==
  /\ scBuilt' = TRUE
  /\ animateLoops' = animateLoops + 1
  /\ scNodes' = {}
  /\ scLoads' = 1..Len(vDesign'[1].furniture)
  /\ scSel' = selectedModelId'
  /\ scNew' = TRUE

\* useEffect(handleModelClick, [sceneRef.current, containerRef.current]): the
\* listener is replaced, with the closure of this render, only when the render
\* read another scene than the render before it
ClickEffect ==
  clk' = IF scNew THEN [on |-> TRUE, sel |-> selectedModelId'] ELSE clk

\* a render that leaves the dependencies of the scene effect alone
RenderOnly ==
  /\ ClickEffect
  /\ scNew' = FALSE
  /\ UNCHANGED <<scBuilt, animateLoops, scLoads, scSel>>

-----------------------------------------------------------------------------
(* Viewer3D: handlers *)

Directions == {"left", "right", "up", "down"}
RotateSteps == {RotateStep, 0 - RotateStep}
ViewerSliderInputs == {0, SliderMax}
ViewerKeys == {"w", "a", "s", "d", "q", "e", "x"}

\* fetchDesign after its await: the design is shown and the scene is built, or the
\* error page replaces the viewer
ViewerFetchReturn ==
  /\ UNCHANGED notVw
  /\ vMounted
  /\ vFetchCall # NoCall
  /\ vFetchCall' = NoCall
  /\ vLoading' = FALSE
  /\ LET found == GetDesignFind(vFetchCall.designs, vFetchCall.id)
     IN IF found # 0
        THEN /\ vDesign' = <<vFetchCall.designs[found]>>
             /\ UNCHANGED <<vError, vNotice, selectedModelId>>
             /\ SceneEffect
             /\ ClickEffect
        ELSE /\ vError' = "Failed to load design"
             /\ vNotice' = "Failed to load design data"
             /\ UNCHANGED <<vDesign, selectedModelId, scVars>>
  /\ UNCHANGED <<now, stVars, vMounted, vDesignId, vSaveCall, vLastSave, vLastEdit,
                 vEvents>>

\* one loadModel of the current scene after its await: the model, or the box when
\* the asset failed; setModelsLoaded renders the component
LoadModelReturn(idx, ok) ==
  /\ UNCHANGED notVw
  /\ vMounted
  /\ UNCHANGED <<now, stVars, vwVars>>
  /\ idx \in scLoads
  /\ LET item == vDesign[1].furniture[idx]
         room == vDesign[1].roomConfig
     IN scNodes' = scNodes \cup {IF ok THEN ModelNode(idx, item, room, scSel)
                                       ELSE BoxNode(idx, item, room)}
  /\ scLoads' = scLoads \ {idx}
  /\ ClickEffect
  /\ scNew' = FALSE
  /\ UNCHANGED <<scBuilt, animateLoops, scSel>>

\* onClick of the container; target is the index of the first tagged model the ray
\* meets, 0 when it meets none
ModelClick(target) ==
  /\ UNCHANGED notVw
  /\ ViewerEvent
  /\ ViewerShown
  /\ clk.on
  /\ target = 0 \/ \E n \in scNodes : n.idx = target /\ n.itemId # 0
  /\ IF target # 0
     THEN LET foundModel == CHOOSE n \in scNodes : n.idx = target
          IN /\ scNodes' = Highlight(ClearHighlight(scNodes, clk.sel), target)
             /\ selectedModelId' = foundModel.itemId
             /\ vNotice' = "Selected"
     ELSE /\ scNodes' = ClearHighlight(scNodes, clk.sel)
          /\ selectedModelId' = NoSel
          /\ UNCHANGED vNotice
  /\ RenderOnly
  /\ UNCHANGED <<now, stVars, vMounted, vDesignId, vLoading, vError, vDesign,
                 vFetchCall, vSaveCall, vLastSave, vLastEdit>>

\* onClick of an entry of the Furniture Items list
SidebarSelect(id) ==
  /\ UNCHANGED notVw
  /\ ViewerEvent
  /\ ViewerShown
  /\ \E i \in 1..Len(vDesign[1].furniture) : vDesign[1].furniture[i].id = id
  /\ selectedModelId' = id
  /\ RenderOnly
  /\ UNCHANGED scNodes
  /\ UNCHANGED <<now, stVars, vMounted, vDesignId, vLoading, vError, vDesign,
                 vFetchCall, vSaveCall, vNotice, vLastSave, vLastEdit>>

\* what an edit command leaves alone
EditFrame ==
  UNCHANGED <<now, stVars, vMounted, vDesignId, vLoading, vError, selectedModelId,
              vFetchCall, vSaveCall, vLastSave>>

\* an edit command that returns before it changes anything
EditReturnsEarly == UNCHANGED <<vDesign, vNotice, vLastEdit, scVars>>

\* an edit command that found no node: console.warn and return
EditAbandoned ==
  /\ vLastEdit' = [kind |-> "abandoned", node |-> <<>>, item |-> <<>>, room |-> <<>>,
                   pending |-> scLoads]
  /\ UNCHANGED <<vDesign, vNotice, scVars>>

\* setDesign({...design, furniture: updatedFurniture}) and the render after it
EditCommittedSceneKept(index, newItem, kind, node, notice) ==
  /\ vDesign' = <<[vDesign[1] EXCEPT !.furniture[index] = newItem]>>
  /\ vLastEdit' = [kind |-> kind, node |-> node, item |-> <<newItem>>,
                   room |-> <<vDesign[1].roomConfig>>, pending |-> scLoads]
  /\ vNotice' = notice
  /\ RenderOnly
  /\ UNCHANGED scNodes

EditCommitted(index, newItem, kind, node, notice) ==
  /\ vDesign' = <<[vDesign[1] EXCEPT !.furniture[index] = newItem]>>
  /\ vLastEdit' = [kind |-> kind, node |-> node, item |-> <<newItem>>,
                   room |-> <<vDesign[1].roomConfig>>, pending |-> scLoads]
  /\ vNotice' = notice
  /\ SceneEffect
  /\ ClickEffect

moveSelectedFurniture(direction) ==
  /\ EditFrame
  /\ IF selectedModelId = NoSel \/ vDesign = <<>> \/ ~scBuilt
     THEN EditReturnsEarly
     ELSE LET index == ViewerSelectedIndex
          IN IF index = 0
             THEN EditReturnsEarly
             ELSE LET item == vDesign[1].furniture[index]
                      room == vDesign[1].roomConfig
                      newX == MovedX(item, room, direction)
                      newY == MovedY(item, room, direction)
                      x == MoveWorld(newX, room.width, item.width)
                      z == MoveWorld(newY, room.height, item.height)
                  IN IF ~ModelFound(scNodes, selectedModelId)
                     THEN EditAbandoned
                     ELSE EditCommitted(index, [item EXCEPT !.x = newX, !.y = newY],
                                        "move", <<x, z>>, "Moved")

rotateSelectedFurniture(degrees) ==
  /\ EditFrame
  /\ IF selectedModelId = NoSel \/ vDesign = <<>> \/ ~scBuilt
     THEN EditReturnsEarly
     ELSE LET index == ViewerSelectedIndex
          IN IF index = 0
             THEN EditReturnsEarly
             ELSE LET item == vDesign[1].furniture[index]
                      newRotation == RotatedBy(item, degrees)
                  IN IF ~ModelFound(scNodes, selectedModelId)
                     THEN EditAbandoned
                     ELSE EditCommitted(index, [item EXCEPT !.rotation = newRotation],
                                        "rotate", <<newRotation>>, "Rotated")

\* updateFurnitureRotation of the viewer: the slider's value, as parsed
ViewerRotationUpdate(degrees) ==
  /\ EditFrame
  /\ IF selectedModelId = NoSel \/ vDesign = <<>> \/ ~scBuilt
     THEN EditReturnsEarly
     ELSE LET index == ViewerSelectedIndex
          IN IF index = 0
             THEN EditReturnsEarly
             ELSE LET item == vDesign[1].furniture[index]
                      newRotation == degrees
                  IN IF ~ModelFound(scNodes, selectedModelId)
                     THEN EditAbandoned
                     ELSE EditCommitted(index, [item EXCEPT !.rotation = newRotation],
                                        "slider", <<newRotation>>, vNotice)

\* the arrow buttons of the Selected Item panel
MoveClick(direction) ==
  /\ UNCHANGED notVw
  /\ ViewerEvent
  /\ ViewerShown
  /\ selectedModelId # NoSel
  /\ moveSelectedFurniture(direction)

\* the two rotate buttons of the panel
RotateClick(degrees) ==
  /\ UNCHANGED notVw
  /\ ViewerEvent
  /\ ViewerShown
  /\ selectedModelId # NoSel
  /\ rotateSelectedFurniture(degrees)

\* onChange of the rotation slider of the panel
ViewerSliderChange(degrees) ==
  /\ UNCHANGED notVw
  /\ ViewerEvent
  /\ ViewerShown
  /\ selectedModelId # NoSel
  /\ ViewerRotationUpdate(degrees)

\* handleKeyDown of the viewer, registered while an item is selected
ViewerKeyDown(key, target) ==
  /\ UNCHANGED notVw
  /\ ViewerEvent
  /\ ViewerShown
  /\ selectedModelId # NoSel
  /\ IF target = "INPUT" \/ target = "TEXTAREA"
     THEN EditFrame /\ EditReturnsEarly
     ELSE CASE key = "w" -> moveSelectedFurniture("up")
            [] key = "a" -> moveSelectedFurniture("left")
            [] key = "s" -> moveSelectedFurniture("down")
            [] key = "d" -> moveSelectedFurniture("right")
            [] key = "q" -> rotateSelectedFurniture(0 - RotateStep)
            [] key = "e" -> rotateSelectedFurniture(RotateStep)
            [] OTHER -> EditFrame /\ EditReturnsEarly

\* saveChanges up to its await: updateDesign(designId, design) reads the store
SaveChangesCall ==
  /\ UNCHANGED notVw
  /\ ViewerEvent
  /\ ViewerShown
  /\ selectedModelId # NoSel
  /\ vSaveCall = NoCall
  /\ vSaveCall' = [op |-> "update", id |-> vDesignId, data |-> vDesign[1],
                   designs |-> GetDesigns(store)]
  /\ vLastSave' = [atCall |-> <<vDesign[1]>>, written |-> <<>>, editedSince |-> FALSE]
  /\ UNCHANGED <<now, stVars, vMounted, vDesignId, vLoading, vError, vDesign,
                 selectedModelId, vFetchCall, vNotice, vLastEdit, scVars>>

\* saveChanges after its await: the record is written, or the service threw
SaveChangesReturn ==
  /\ UNCHANGED notVw
  /\ vMounted
  /\ vSaveCall # NoCall
  /\ vSaveCall' = NoCall
  /\ UNCHANGED <<now, userPresent, vMounted, vDesignId, vLoading, vError, vDesign,
                 selectedModelId, vFetchCall, vLastEdit, vEvents>>
  /\ LET index == UpdateDesignIndex(vSaveCall.designs, vSaveCall.id)
     IN IF index # 0
        THEN /\ store' = Stringify(UpdateDesignList(vSaveCall.designs, index,
                                                    vSaveCall.data, now))
             /\ vLastSave' = [vLastSave EXCEPT
                                !.written = <<GetDesigns(store')[index]>>,
                                !.editedSince = (vDesign[1] # vSaveCall.data)]
             /\ vNotice' = "Design updated successfully"
        ELSE /\ vNotice' = "Failed to save changes: Design not found"
             /\ UNCHANGED <<store, vLastSave>>
  /\ RenderOnly
  /\ UNCHANGED scNodes


-----------------------------------------------------------------------------
(* Editor2D: top-down previews *)

\* `${item.name}-${item.fill}-${item.rotation || 0}`: the three parts of the key
CacheKey(item) == <<item.name, item.fill, item.rotation>>

\* the for loop of generatePreviews from item pos on, up to its next await that
\* suspends: a key newPreviews holds is skipped, a key the cache holds is copied
\* (createTopDownImage returns the cached image), any other key starts a production
RECURSIVE PreviewLoop(_, _, _, _, _)
PreviewLoop(keys, pos, newPreviews, updated, cache) ==
  IF pos > Len(keys)
  THEN [done |-> TRUE, keys |-> keys, pos |-> pos, newPreviews |-> newPreviews,
        updated |-> updated]
  ELSE IF keys[pos] \in newPreviews
  THEN PreviewLoop(keys, pos + 1, newPreviews, updated, cache)
  ELSE IF keys[pos] \in cache
  THEN PreviewLoop(keys, pos + 1, newPreviews \cup {keys[pos]}, TRUE, cache)
  ELSE [done |-> FALSE, keys |-> keys, pos |-> pos, newPreviews |-> newPreviews,
        updated |-> updated]

\* a run as pvRuns keeps it: it awaits the production of keys[pos]
RunOf(loop) ==
  [keys |-> loop.keys, pos |-> loop.pos, newPreviews |-> loop.newPreviews,
   updated |-> loop.updated]

\* the end of generatePreviews: setModelPreviews(newPreviews) when a preview was added
PreviewsAfter(loop, previews) == IF loop.updated THEN loop.newPreviews ELSE previews

\* the effect on [furniture]: generatePreviews starts with a copy of the render's
\* modelPreviews and runs up to its first production
generatePreviews ==
  IF Len(furniture') = 0
  THEN UNCHANGED pvVars
  ELSE LET loop == PreviewLoop([i \in 1..Len(furniture') |-> CacheKey(furniture'[i])], 1, modelPreviews, FALSE,
                               topDownImageCache)
       IN /\ UNCHANGED <<topDownImageCache, pvFailed>>
          /\ IF loop.done
             THEN /\ modelPreviews' = PreviewsAfter(loop, modelPreviews)
                  /\ loadingPreviews' = FALSE
                  /\ UNCHANGED pvRuns
             ELSE /\ loadingPreviews' = TRUE
                  /\ pvRuns' = Append(pvRuns, RunOf(loop))
                  /\ UNCHANGED modelPreviews

\* createTopDownImage after its awaits, and the run that awaited it up to its next
\* production or its end; a production that threw returns null and caches nothing
createTopDownImageResume(i, ok) ==
  /\ i \in 1..Len(pvRuns)
  /\ LET run == pvRuns[i]
         key == run.keys[run.pos]
         cache == IF ok THEN topDownImageCache \cup {key} ELSE topDownImageCache
         loop == PreviewLoop(run.keys, run.pos + 1,
                             IF ok THEN run.newPreviews \cup {key} ELSE run.newPreviews,
                             run.updated \/ ok, cache)
     IN /\ topDownImageCache' = cache
        /\ pvFailed' = IF ok THEN pvFailed \ {key} ELSE pvFailed \cup {key}
        /\ IF loop.done
           THEN /\ modelPreviews' = IF edMounted THEN PreviewsAfter(loop, modelPreviews)
                                  ELSE modelPreviews
                /\ loadingPreviews' = (~edMounted /\ loadingPreviews)
                /\ pvRuns' = RemoveAt(pvRuns, i)
           ELSE /\ pvRuns' = [pvRuns EXCEPT ![i] = RunOf(loop)]
                /\ UNCHANGED <<modelPreviews, loadingPreviews>>

createTopDownImageReturn(i, ok) ==
  UNCHANGED <<now, edVars, stVars, notPv>> /\ createTopDownImageResume(i, ok)

\* the handlers that call setFurniture, with the effect on [furniture] of the render
\* that follows
AddFurnitureRender(type) ==
  addFurnitureEdit(type) /\ UNCHANGED notPv /\ generatePreviews

ColorRender(color) ==
  updateFurnitureColorEdit(color) /\ UNCHANGED notPv /\ generatePreviews

RotationRender(degrees) ==
  RotationSliderChangeEdit(degrees) /\ UNCHANGED notPv /\ generatePreviews

DeleteRender ==
  DeleteClickEdit /\ UNCHANGED notPv /\ generatePreviews

-----------------------------------------------------------------------------
(* Editor2D: the FurnitureItem components *)

\* modelPreviews[cacheKey] of the furniture.map render: the entry, or undefined (<<>>)
ImageUrl(item, previews) ==
  IF CacheKey(item) \in previews THEN <<CacheKey(item)>> ELSE <<>>

\* the effect on [imageUrl]: nothing without a url, else a new Image starts to load
ImageLoads(loads, url) == IF url = <<>> THEN loads ELSE loads \cup {url[1]}

\* a FurnitureItem that mounts: useState(null), then the effect
MountItem(url) == [imageUrl |-> url, image |-> <<>>, loads |-> ImageLoads({}, url)]

\* a FurnitureItem that renders again: the effect runs when imageUrl changed, and
\* the image state is kept
RenderItem(fi, url) ==
  IF url = fi.imageUrl THEN fi
  ELSE [fi EXCEPT !.imageUrl = url, !.loads = ImageLoads(fi.loads, url)]

\* furniture.map(item => <FurnitureItem key={item.id} .../>): the components of a
\* list that only grows at its end keep their places
FurnitureItems(items, list, previews) ==
  [i \in 1..Len(list) |->
     IF i <= Len(items) THEN RenderItem(items[i], ImageUrl(list[i], previews))
     ELSE MountItem(ImageUrl(list[i], previews))]

\* the render after setFurniture, and the one after the setModelPreviews of a
\* generatePreviews that ended without suspending on a production
RenderItems ==
  furnitureItems' = FurnitureItems(FurnitureItems(furnitureItems, furniture', modelPreviews),
                                   furniture', modelPreviews')

\* what a FurnitureItem draws: the KonvaImage of its image state, else the Rect
DrawnImage(fi) == fi.image

AddFurnitureDraw(type) ==
  addFurnitureEdit(type) /\ UNCHANGED notRd /\ generatePreviews /\ RenderItems

ColorDraw(color) ==
  updateFurnitureColorEdit(color) /\ UNCHANGED notRd /\ generatePreviews /\ RenderItems

RotationDraw(degrees) ==
  RotationSliderChangeEdit(degrees) /\ UNCHANGED notRd /\ generatePreviews /\ RenderItems

createTopDownImageDraw(i, ok) ==
  /\ UNCHANGED <<now, edVars, stVars, notRd>>
  /\ createTopDownImageResume(i, ok)
  /\ RenderItems

\* img.onload = () => setImage(img), for an Image whose load a past effect started
ImageOnload(i, key) ==
  /\ UNCHANGED <<now, edVars, stVars, pvVars, notRd>>
  /\ i \in 1..Len(furnitureItems)
  /\ key \in furnitureItems[i].loads
  /\ furnitureItems' = [furnitureItems EXCEPT ![i].image = <<key>>,
                                               ![i].loads = @ \ {key}]

-----------------------------------------------------------------------------
(* modelService: the lookup tables and their accessors *)

MaxLookups == 2      \* lookups made in one run

\* JavaScript values: numbers of the tables are kept as integers (scales in
\* hundredths, y positions and top-down scales in tenths)
JsNumber(n) == [type |-> "number", num |-> n, str |-> "", obj |-> <<>>]
JsString(s) == [type |-> "string", num |-> 0, str |-> s, obj |-> <<>>]
JsObject(o) == [type |-> "object", num |-> 0, str |-> "", obj |-> o]
JsFunction(name) == [type |-> "function", num |-> 0, str |-> name, obj |-> <<>>]
JsUndefined == [type |-> "undefined", num |-> 0, str |-> "", obj |-> <<>>]

\* ToBoolean: 0, "" and undefined are falsy
Truthy(v) ==
  CASE v.type = "number" -> v.num # 0
    [] v.type = "string" -> v.str # ""
    [] v.type = "undefined" -> FALSE
    [] OTHER -> TRUE

\* a || b
JsOr(a, b) == IF Truthy(a) THEN a ELSE b

\* the properties every object literal inherits from Object.prototype
ObjectPrototypeKeys ==
  {"constructor", "toString", "valueOf", "hasOwnProperty", "__proto__"}

\* table[key] of an object literal: the own property, else the inherited one, else
\* undefined
GetProperty(table, key) ==
  IF key \in DOMAIN table THEN table[key]
  ELSE IF key = "__proto__" THEN JsObject(<<>>)
  ELSE IF key \in ObjectPrototypeKeys THEN JsFunction(key)
  ELSE JsUndefined

MODEL_MAP ==
  [Sofa |-> JsString("/models/canba.glb"), Table |-> JsString("/models/table.glb"),
   Bed |-> JsString("/models/bed-2.glb"), Bookshelf |-> JsString("/models/bookshelf.glb"),
   Dresser |-> JsString("/models/dresser.glb"), Plant |-> JsString("/models/plant.glb"),
   default |-> JsString("/models/cube.glb")]

MODEL_SCALES ==
  [Sofa |-> JsNumber(100), Table |-> JsNumber(18), Bed |-> JsNumber(190),
   Bookshelf |-> JsNumber(45), Dresser |-> JsNumber(40), Plant |-> JsNumber(30),
   default |-> JsNumber(50)]

MODEL_Y_POSITIONS ==
  [Sofa |-> JsNumber(0), Table |-> JsNumber(7), Bed |-> JsNumber(5),
   Bookshelf |-> JsNumber(5), Dresser |-> JsNumber(3), Plant |-> JsNumber(1),
   default |-> JsNumber(0)]

MODEL_ROTATIONS ==
  [Sofa |-> JsNumber(0), Table |-> JsNumber(0), Bed |-> JsNumber(0),
   Bookshelf |-> JsNumber(0), Dresser |-> JsNumber(0), Plant |-> JsNumber(0),
   default |-> JsNumber(0)]

\* { cameraHeight, rotationOffset, scale }
TOP_DOWN_ADJUSTMENTS ==
  [Sofa |-> JsObject(<<8, 0, 13>>), Table |-> JsObject(<<7, 0, 12>>),
   Bed |-> JsObject(<<12, 0, 15>>), Bookshelf |-> JsObject(<<10, 0, 14>>),
   Dresser |-> JsObject(<<6, 0, 12>>), Plant |-> JsObject(<<5, 0, 10>>),
   default |-> JsObject(<<8, 0, 12>>)]

\* the returned values, as a tuple
getModelPath(type) == <<JsOr(GetProperty(MODEL_MAP, type), MODEL_MAP["default"])>>

\* { scale, yPosition, rotation }
getModelConfig(type) ==
  <<JsOr(GetProperty(MODEL_SCALES, type), MODEL_SCALES["default"]),
    JsOr(GetProperty(MODEL_Y_POSITIONS, type), MODEL_Y_POSITIONS["default"]),
    JsOr(GetProperty(MODEL_ROTATIONS, type), MODEL_ROTATIONS["default"])>>

getTopDownViewSettings(type) ==
  <<JsOr(GetProperty(TOP_DOWN_ADJUSTMENTS, type), TOP_DOWN_ADJUSTMENTS["default"])>>

\* the names the lookups are called with: item.name of a design read from
\* localStorage is any string
CatalogNames == DOMAIN MODEL_MAP \ {"default"}
LookupNames == CatalogNames \cup {"default", "Wardrobe", "", "sofa"} \cup ObjectPrototypeKeys

Lookup(method, result) ==
  /\ UNCHANGED <<now, notMs>>
  /\ Len(lookups) < MaxLookups
  /\ lookups' = Append(lookups, [method |-> method, type |-> furnitureType,
                                  result |-> result])
  /\ furnitureType' \in LookupNames

getModelPathCall == Lookup("getModelPath", getModelPath(furnitureType))

getModelConfigCall == Lookup("getModelConfig", getModelConfig(furnitureType))

getTopDownViewSettingsCall ==
  Lookup("getTopDownViewSettings", getTopDownViewSettings(furnitureType))

-----------------------------------------------------------------------------
(* Editor2D and modelService: the caches and the teardown of the editor *)

\* Object.values(MODEL_MAP), in the order of the literal
PreloadPaths ==
  <<MODEL_MAP["Sofa"].str, MODEL_MAP["Table"].str, MODEL_MAP["Bed"].str,
    MODEL_MAP["Bookshelf"].str, MODEL_MAP["Dresser"].str, MODEL_MAP["Plant"].str,
    MODEL_MAP["default"].str>>

\* the for loop of preloadModels from path pos on: the first path the cache lacks
RECURSIVE PreloadLoop(_, _)
PreloadLoop(pos, cache) ==
  IF pos > Len(PreloadPaths) THEN 0
  ELSE IF PreloadPaths[pos] \in cache THEN PreloadLoop(pos + 1, cache)
  ELSE pos

\* preloadModels after await this._loadGLTF(path): the model is cached, a failure
\* is logged, and the loop goes on, whether or not the editor is still mounted
preloadModelsResume(ok) ==
  /\ UNCHANGED <<now, edVars, stVars, svVars, vwVars, scVars, pvVars, rdVars, msVars, tbVars>>
  /\ preloadPos # 0
  /\ modelCache' = IF ok THEN modelCache \cup {PreloadPaths[preloadPos]} ELSE modelCache
  /\ preloadPos' = PreloadLoop(preloadPos + 1, modelCache')

\* createTopDownImage after its awaits, with modelService.loadModel(modelName)
\* inside it: a loaded model is cached under its path
createTopDownImageLoaded(i, ok) ==
  /\ UNCHANGED <<now, edVars, stVars, svVars, vwVars, scVars, rdVars, msVars, preloadPos, tbVars>>
  /\ createTopDownImageResume(i, ok)
  /\ LET modelName == pvRuns[i].keys[pvRuns[i].pos][1]
     IN modelCache' = IF ok THEN modelCache \cup {getModelPath(modelName)[1].str}
                      ELSE modelCache

\* the unmount of Editor2D: the cleanups of its effects empty topDownImageCache and
\* call modelService.clearCache(); nothing that is in flight is cancelled
EditorUnmount ==
  /\ edMounted
  /\ edMounted' = FALSE
  /\ topDownImageCache' = {}
  /\ modelCache' = {}
  /\ UNCHANGED <<now, designId, designName, roomConfig, furniture, selectedId, saving,
                 loading, edError, edNotice, saveCall, fetchCall, lastSave, events,
                 stVars, svVars, vwVars, scVars, modelPreviews, loadingPreviews, pvRuns,
                 pvFailed, rdVars, msVars, preloadPos, tbVars>>

-----------------------------------------------------------------------------
(* Specifications *)

\* useState('3d'), useState(true), useState(false); no handler has thrown
TbIdle ==
  /\ showWalls = FALSE
  /\ showGrid = TRUE
  /\ viewMode = "3d"
  /\ vThrown = "none"

\* the viewer is not mounted
VwIdle ==
  /\ vMounted = FALSE
  /\ vDesignId = NoDesign
  /\ vLoading = FALSE
  /\ vError = ""
  /\ vDesign = <<>>
  /\ selectedModelId = NoSel
  /\ vFetchCall = NoCall
  /\ vSaveCall = NoCall
  /\ vNotice = ""
  /\ vLastSave = NoSave
  /\ vLastEdit = NoEdit
  /\ vEvents = 0
  /\ scBuilt = FALSE
  /\ animateLoops = 0
  /\ scNodes = {}
  /\ scLoads = {}
  /\ scSel = NoSel
  /\ scNew = FALSE
  /\ clk = [on |-> FALSE, sel |-> NoSel]
  /\ TbIdle

\* no lookup was made yet, the model cache is empty and not being filled
MsIdle ==
  /\ furnitureType = "Sofa"
  /\ lookups = <<>>
  /\ modelCache = {}
  /\ preloadPos = 0

\* no preview was generated yet
PvIdle ==
  /\ modelPreviews = {}
  /\ loadingPreviews = FALSE
  /\ topDownImageCache = {}
  /\ pvRuns = <<>>
  /\ pvFailed = {}
  /\ furnitureItems = <<>>

SvIdle ==
  /\ svCalls = <<>>
  /\ svLastCreate = <<>>
  /\ svLastGet = [created |-> <<>>, got |-> <<>>]
  /\ svError = "none"
  /\ svIssued = 0

EdIdle ==
  /\ designId = NoDesign
  /\ designName = "New Design"
  /\ roomConfig = InitialRoomConfig
  /\ furniture = <<>>
  /\ selectedId = NoSel
  /\ saving = FALSE
  /\ loading = FALSE
  /\ edMounted = TRUE
  /\ edError = "none"
  /\ edNotice = NoNotice
  /\ saveCall = NoCall
  /\ fetchCall = NoCall
  /\ lastSave = NoSave
  /\ events = 0

Init ==
  /\ now = 1
  /\ store = <<>>
  /\ userPresent = TRUE
  /\ EdIdle
  /\ SvIdle
  /\ VwIdle
  /\ PvIdle
  /\ MsIdle

Next ==
  \/ Tick
  \/ \E type \in AddTypes : addFurniture(type)
  \/ \E id \in ItemIds : onSelect(id)
  \/ checkDeselect
  \/ \E color \in FillColors : updateFurnitureColor(color)
  \/ \E degrees \in SliderInputs : RotationSliderChange(degrees)
  \/ Rotate90Click
  \/ DeleteClick
  \/ \E key \in Keys, target \in KeyTargets : EditorKeyDown(key, target)
  \/ \E id \in ItemIds, pos \in DragPositions : onDragEnd(id, pos)
  \/ \E id \in ItemIds, node \in TransformResults : onTransformEnd(id, node)
  \/ \E e \in RoomEdits : SetRoomConfig(e[1], e[2])
  \/ \E name \in DesignNames : SetDesignName(name)
  \/ SaveDesignCall
  \/ SaveCreateReturn
  \/ SaveUpdateReturn
  \/ FetchReturn
  \/ \E id \in StoredIds \cup {NoDesign, MaxClock + 1} : NavigateTo(id)
  \/ Logout
  \/ \E id \in StoredIds : DashboardDelete(id)

Spec == Init /\ [][Next]_vars

InitStore ==
  /\ now = 1
  /\ store = <<>>
  /\ userPresent = TRUE
  /\ SvIdle
  /\ EdIdle
  /\ VwIdle
  /\ PvIdle
  /\ MsIdle

NextStore ==
  \/ Tick
  \/ Logout
  \/ \E data \in ServiceData : createDesignCall(data)
  \/ \E id \in StoredIds \cup {MaxClock + 1} : getDesignCall(id)
  \/ \E id \in StoredIds \cup {MaxClock + 1}, data \in ServiceData : updateDesignCall(id, data)
  \/ \E id \in StoredIds : deleteDesignCall(id)
  \/ \E i \in 1..Len(svCalls) : createDesignReturn(i)
  \/ \E i \in 1..Len(svCalls) : getDesignReturn(i)
  \/ \E i \in 1..Len(svCalls) : updateDesignReturn(i)
  \/ \E i \in 1..Len(svCalls) : deleteDesignReturn(i)

SpecStore == InitStore /\ [][NextStore]_vars

\* the editor is not mounted
EdAbsent ==
  /\ designId = NoDesign
  /\ designName = "New Design"
  /\ roomConfig = InitialRoomConfig
  /\ furniture = <<>>
  /\ selectedId = NoSel
  /\ saving = FALSE
  /\ loading = FALSE
  /\ edMounted = FALSE
  /\ edError = "none"
  /\ edNotice = NoNotice
  /\ saveCall = NoCall
  /\ fetchCall = NoCall
  /\ lastSave = NoSave
  /\ events = 0

\* a design the editor saved: the room at the sliders' minimum, a sofa dragged
\* over the left wall and turned with the slider, a plant near the right wall
SavedDesign ==
  [id |-> 1, name |-> "Den",
   roomConfig |-> [InitialRoomConfig EXCEPT !.width = 300, !.height = 200],
   furniture |->
     << [NewItem("sofa", 1, InitialRoomConfig) EXCEPT !.x = -30, !.y = 10,
                                                      !.rotation = 345],
        [NewItem("plant", 2, InitialRoomConfig) EXCEPT !.x = 255, !.y = 150] >>,
   lastModified |-> 1, userId |-> "u1"]

ViewerRoutes == {1, 2}

\* the 3D viewer mounted on /viewer/:designId: the first render shows the loading
\* page and fetchDesign has called getDesign
InitViewer ==
  /\ now = 2
  /\ store = Stringify(<<SavedDesign>>)
  /\ userPresent = TRUE
  /\ EdAbsent
  /\ SvIdle
  /\ PvIdle
  /\ MsIdle
  /\ vMounted = TRUE
  /\ vDesignId \in ViewerRoutes
  /\ vLoading = TRUE
  /\ vError = ""
  /\ vDesign = <<>>
  /\ selectedModelId = NoSel
  /\ vFetchCall = [op |-> "get", id |-> vDesignId, designs |-> GetDesigns(store)]
  /\ vSaveCall = NoCall
  /\ vNotice = ""
  /\ vLastSave = NoSave
  /\ vLastEdit = NoEdit
  /\ vEvents = 0
  /\ scBuilt = FALSE
  /\ animateLoops = 0
  /\ scNodes = {}
  /\ scLoads = {}
  /\ scSel = NoSel
  /\ scNew = FALSE
  /\ clk = [on |-> FALSE, sel |-> NoSel]
  /\ TbIdle

NextViewer ==
  \/ Tick
  \/ ViewerFetchReturn
  \/ \E idx \in 1..MaxItems, ok \in BOOLEAN : LoadModelReturn(idx, ok)
  \/ \E target \in 0..MaxItems : ModelClick(target)
  \/ \E id \in 1..MaxClock : SidebarSelect(id)
  \/ \E direction \in Directions : MoveClick(direction)
  \/ \E degrees \in RotateSteps : RotateClick(degrees)
  \/ \E degrees \in ViewerSliderInputs : ViewerSliderChange(degrees)
  \/ \E key \in ViewerKeys, target \in KeyTargets : ViewerKeyDown(key, target)
  \/ SaveChangesCall
  \/ SaveChangesReturn

SpecViewer == InitViewer /\ [][NextViewer]_vars

\* the 2D editor with the preview generation its furniture changes start
NextPreview ==
  \/ Tick
  \/ \E type \in AddTypes : AddFurnitureRender(type)
  \/ \E id \in ItemIds : onSelect(id)
  \/ \E color \in FillColors : ColorRender(color)
  \/ \E degrees \in SliderInputs : RotationRender(degrees)
  \/ DeleteRender
  \/ \E i \in 1..(MaxEvents * MaxItems), ok \in BOOLEAN : createTopDownImageReturn(i, ok)

SpecPreview == Init /\ [][NextPreview]_vars

\* the 2D editor with its previews and FurnitureItem components
RenderTypes == {"sofa", "plant"}
RenderRotations == {345}

NextRender ==
  \/ \E type \in RenderTypes : AddFurnitureDraw(type)
  \/ \E color \in FillColors : ColorDraw(color)
  \/ \E degrees \in RenderRotations : RotationDraw(degrees)
  \/ \E i \in 1..Len(pvRuns), ok \in BOOLEAN : createTopDownImageDraw(i, ok)
  \/ \E i \in 1..Len(furnitureItems) : \E key \in furnitureItems[i].loads : ImageOnload(i, key)

SpecRender == Init /\ [][NextRender]_vars

\* modelService called with any name
InitCatalog ==
  /\ now = 1
  /\ store = <<>>
  /\ userPresent = TRUE
  /\ EdIdle
  /\ SvIdle
  /\ VwIdle
  /\ PvIdle
  /\ lookups = <<>>
  /\ furnitureType \in LookupNames
  /\ modelCache = {}
  /\ preloadPos = 0

NextCatalog ==
  \/ getModelPathCall
  \/ getModelConfigCall
  \/ getTopDownViewSettingsCall

SpecCatalog == InitCatalog /\ [][NextCatalog]_vars

\* the 2D editor from its mount, with preloadModels running, to after its unmount
TeardownTypes == {"sofa", "plant"}

InitTeardown ==
  /\ now = 1
  /\ store = <<>>
  /\ userPresent = TRUE
  /\ EdIdle
  /\ SvIdle
  /\ VwIdle
  /\ PvIdle
  /\ furnitureType = "Sofa"
  /\ lookups = <<>>
  /\ modelCache = {}
  /\ preloadPos = 1

NextTeardown ==
  \/ \E type \in TeardownTypes : preloadPos = 0 /\ AddFurnitureRender(type)  \* initialLoading is over
  \/ \E i \in 1..Len(pvRuns), ok \in BOOLEAN : createTopDownImageLoaded(i, ok)
  \/ \E ok \in BOOLEAN : preloadModelsResume(ok)
  \/ EditorUnmount

SpecTeardown == InitTeardown /\ [][NextTeardown]_vars

\* the client opened on either page
InitApp == Init \/ InitViewer

NextApp == Next \/ NextViewer

SpecApp == InitApp /\ [][NextApp]_vars

-----------------------------------------------------------------------------
(* Claims about the 2D editor's data model *)

\* C1: after any sequence of add, update and delete operations in the 2D editor, the
\* ids of the items in the furniture list are pairwise distinct
C1_IdsPairwiseDistinct ==
  \A i, j \in 1..Len(furniture) : i # j => furniture[i].id # furniture[j].id

\* C2: every item's stored rotation r satisfies 0 <= r < 360 in every reachable state
C2_RotationNormalized ==
  \A i \in 1..Len(furniture) :
    furniture[i].rotation >= 0 /\ furniture[i].rotation < FullTurn

\* C4: removing an item id that is not in the furniture list is a no-op: the list is
\* unchanged and no error is raised
C4_RemoveMissingIsNoOp ==
  [][\A key \in {"Delete", "Backspace"}, target \in KeyTargets :
       (selectedId # NoSel /\ ~HasSelectedItem /\ EditorKeyDown(key, target))
         => (furniture' = furniture /\ edError' = "none")]_vars

\* C10: the record a save writes to the store holds exactly the name, roomConfig and
\* furniture that were current when the save (saveDesign of the editor, saveChanges
\* of the viewer) was called, whatever was edited while the call was in flight
C10_SaveWritesSnapshot ==
  /\ lastSave.written # <<>> =>
        /\ lastSave.written[1].name = lastSave.atCall[1].name
        /\ lastSave.written[1].roomConfig = lastSave.atCall[1].roomConfig
        /\ lastSave.written[1].furniture = lastSave.atCall[1].furniture
  /\ vLastSave.written # <<>> =>
        /\ vLastSave.written[1].name = vLastSave.atCall[1].name
        /\ vLastSave.written[1].roomConfig = vLastSave.atCall[1].roomConfig
        /\ vLastSave.written[1].furniture = vLastSave.atCall[1].furniture

\* a save has written its record although the user edited the design while it was in flight
C10_Witness ==
  \/ lastSave.written # <<>> /\ lastSave.editedSince
  \/ vLastSave.written # <<>> /\ vLastSave.editedSince

-----------------------------------------------------------------------------
(* Claims about the design store *)

\* C5: createDesign(data) followed by getDesign(returned id) returns a design whose
\* roomConfig and furniture equal those of data
C5_SaveThenLoadRoundTrip ==
  svLastGet.created # <<>> =>
    /\ svLastGet.got # <<>>
    /\ svLastGet.got[1].roomConfig = svLastGet.created[1].roomConfig
    /\ svLastGet.got[1].furniture = svLastGet.created[1].furniture

-----------------------------------------------------------------------------
(* Claims about the 3D viewer *)

\* C3: after a move in the 3D viewer the moved item lies inside the room:
\* 0 <= x, x + width <= roomWidth, 0 <= y and y + height <= roomHeight
C3_MovedItemInsideRoom ==
  vLastEdit.kind = "move" =>
    LET item == vLastEdit.item[1]
        room == vLastEdit.room[1]
    IN /\ 0 <= item.x
       /\ item.x + item.width <= room.width
       /\ 0 <= item.y
       /\ item.y + item.height <= room.height

\* C6: at most one model of the scene carries the selection highlight, and it is the
\* model of the item whose id is selectedModelId
C6_OnlySelectedHighlighted ==
  /\ Cardinality({n \in scNodes : n.emissive}) <= 1
  /\ \A n \in scNodes : n.emissive => n.itemId = selectedModelId

\* C8: a move or rotate command issued while no node of the scene is tagged with the
\* selected id leaves the design, and so every item's x, y and rotation, as it was
C8_MissingNodeAbandonsEdit ==
  [][(/\ selectedModelId # NoSel
      /\ ~(\E n \in scNodes : n.itemId = selectedModelId)
      /\ \/ \E direction \in Directions : MoveClick(direction)
         \/ \E degrees \in RotateSteps : RotateClick(degrees)
         \/ \E degrees \in ViewerSliderInputs : ViewerSliderChange(degrees)
         \/ \E key \in ViewerKeys, target \in KeyTargets : ViewerKeyDown(key, target))
       => vDesign' = vDesign]_vars

\* a command was abandoned because the selected item had no node in the scene
C8_Witness ==
  /\ vLastEdit.kind = "abandoned"
  /\ selectedModelId # NoSel
  /\ ~(\E n \in scNodes : n.itemId = selectedModelId)

\* C9: every node of the scene that is tagged with an item id stands at the world
\* position converted from that item's stored (x, y) and carries its stored rotation,
\* and what an edit command wrote to the node is the conversion of what it stored
C9_NodesMatchStoredItems ==
  /\ \A n \in scNodes :
       n.itemId # 0 =>
         LET item == vDesign[1].furniture[n.idx]
             room == vDesign[1].roomConfig
         IN /\ item.id = n.itemId
            /\ n.x = (item.x * 2 - room.width) + item.width
            /\ n.z = (item.y * 2 - room.height) + item.height
            /\ n.rot = item.rotation
  /\ vLastEdit.kind = "move" =>
       LET item == vLastEdit.item[1]
           room == vLastEdit.room[1]
       IN vLastEdit.node = <<(item.x * 2 - room.width) + item.width,
                             (item.y * 2 - room.height) + item.height>>
  /\ vLastEdit.kind \in {"rotate", "slider"} =>
       vLastEdit.node = <<vLastEdit.item[1].rotation>>

\* the scene was rebuilt after a move and the moved item's model is loaded again
C9_Witness ==
  /\ vLastEdit.kind = "move"
  /\ \E n \in scNodes : n.itemId = vLastEdit.item[1].id

-----------------------------------------------------------------------------
(* Claims about the top-down previews *)

\* C7: for every cache key at most one production of its preview is in flight at
\* any time, also when the requests come from overlapping generatePreviews runs
C7_OneGenerationPerKey ==
  \A i, j \in 1..Len(pvRuns) :
    i # j => pvRuns[i].keys[pvRuns[i].pos] # pvRuns[j].keys[pvRuns[j].pos]

-----------------------------------------------------------------------------
(* Claims about failures of the persistence calls *)

\* C11: when the service rejects a save (createDesign without a stored user,
\* updateDesign of an id the store does not hold), the page shows an error
\* notification, keeps name, roomConfig and furniture as they are, and clears its
\* saving indicator so that the save can be issued again
C11_RejectedSaveKeepsDesign ==
  [][/\ (/\ saveCall.op = "create"
         /\ ~userPresent
         /\ SaveCreateReturn)
        => (/\ edNotice'.type = "error"
            /\ <<designName, roomConfig, furniture>>' = <<designName, roomConfig, furniture>>
            /\ ~saving' /\ saveCall' = NoCall)
     /\ (/\ saveCall.op = "update"
         /\ \A i \in 1..Len(saveCall.designs) : saveCall.designs[i].id # saveCall.id
         /\ SaveUpdateReturn)
        => (/\ edNotice'.type = "error"
            /\ <<designName, roomConfig, furniture>>' = <<designName, roomConfig, furniture>>
            /\ ~saving' /\ saveCall' = NoCall)
     /\ (/\ vSaveCall # NoCall
         /\ \A i \in 1..Len(vSaveCall.designs) : vSaveCall.designs[i].id # vSaveCall.id
         /\ SaveChangesReturn)
        => (/\ vNotice' = "Failed to save changes: Design not found"
            /\ vDesign' = vDesign
            /\ vSaveCall' = NoCall)]_vars

\* a save was rejected: the error is shown and no save is in flight
C11_Witness ==
  \/ /\ edNotice = Notice("error", "Failed to save design. Please try again.")
     /\ ~saving
     /\ lastSave.atCall # <<>> /\ lastSave.written = <<>>
  \/ /\ vNotice = "Failed to save changes: Design not found"
     /\ vSaveCall = NoCall
     /\ vLastSave.atCall # <<>> /\ vLastSave.written = <<>>

\* C12: getDesign(id) and updateDesign(id, data) called with an id that the list
\* read from the store does not hold fail with the error "Design not found", and
\* such an updateDesign leaves the stored list as it is
C12_UnknownIdIsNotFound ==
  [][\A i \in 1..Len(svCalls) :
       (/\ svCalls[i].op \in {"get", "update"}
        /\ \A k \in 1..Len(svCalls[i].designs) : svCalls[i].designs[k].id # svCalls[i].id)
       => /\ getDesignReturn(i) => svError' = "Design not found"
          /\ updateDesignReturn(i) => (svError' = "Design not found" /\ store' = store)]_vars

\* a call for an id that a non-empty store does not hold has failed
C12_Witness ==
  /\ svError = "Design not found"
  /\ GetDesigns(store) # <<>>
  /\ svIssued > 0

\* C13: when the editor or the viewer was opened for a design id that the store
\* does not hold, the failed load shows an error, takes the user away from the
\* page to the default view, and ends the page's loading state
C13_MissingDesignRedirects ==
  [][/\ (/\ fetchCall.op = "get"
         /\ \A i \in 1..Len(fetchCall.designs) : fetchCall.designs[i].id # fetchCall.id
         /\ FetchReturn)
        => (/\ edNotice'.type = "error"
            /\ ~edMounted'
            /\ ~loading')
     /\ (/\ vFetchCall # NoCall
         /\ \A i \in 1..Len(vFetchCall.designs) : vFetchCall.designs[i].id # vFetchCall.id
         /\ ViewerFetchReturn)
        => (/\ vNotice' = "Failed to load design data"
            /\ ~vMounted'
            /\ ~vLoading')]_vars

(* Claims about the previews of the 2D editor *)

\* C14: once the production of a preview for a cache key has failed, no step
\* starts another production for that key (neither a new generatePreviews run nor
\* a run that moves on to its next item), and the key stays without a preview, so
\* that its items are drawn as the fallback rectangle
C14_NoRetryAfterFailure ==
  [][\A key \in pvFailed :
       /\ Len(pvRuns') > Len(pvRuns)
          => pvRuns'[Len(pvRuns')].keys[pvRuns'[Len(pvRuns')].pos] # key
       /\ Len(pvRuns') = Len(pvRuns)
          => \A i \in 1..Len(pvRuns) :
               pvRuns'[i] # pvRuns[i] => pvRuns'[i].keys[pvRuns'[i].pos] # key
       /\ key \notin modelPreviews']_vars

\* C15: at every render an item is drawn with an image only if modelPreviews holds
\* an entry for the item's current cache key, and the image is the one of that
\* entry; an item whose current key has no entry is drawn as the plain rectangle
C15_DrawnImageIsCurrentEntry ==
  \A i \in 1..Len(furnitureItems) :
    DrawnImage(furnitureItems[i]) # <<>>
    => /\ CacheKey(furniture[i]) \in modelPreviews
       /\ DrawnImage(furnitureItems[i]) = <<CacheKey(furniture[i])>>

(* Claims about the scene of the 3D viewer *)

\* C16: whatever loads fail, the scene holds exactly one object for every item whose
\* loadModel has ended and none for the others, so that one object per item is there
\* when all have ended; the object of a failed load is a box of item.width * scale
\* by item.height * scale at the item's world position
C16_FailedLoadsBecomeBoxes ==
  (scBuilt /\ vDesign # <<>>) =>
    LET list == vDesign[1].furniture
        room == vDesign[1].roomConfig
    IN /\ \A idx \in 1..Len(list) :
            Cardinality({n \in scNodes : n.idx = idx}) = IF idx \in scLoads THEN 0 ELSE 1
       /\ scLoads = {} => Cardinality(scNodes) = Len(list)
       /\ \A n \in scNodes :
            /\ n.idx \in 1..Len(list)
            /\ n.box => /\ n.w = list[n.idx].width * Scale100
                        /\ n.d = list[n.idx].height * Scale100
                        /\ n.x = LoadWorld(list[n.idx].x, room.width, list[n.idx].width)
                        /\ n.z = LoadWorld(list[n.idx].y, room.height, list[n.idx].height)
            /\ ~n.box => n.itemId = list[n.idx].id

\* all loads of a scene have ended, one failed and one did not
C16_Witness ==
  /\ scBuilt /\ vDesign # <<>> /\ scLoads = {}
  /\ \E n \in scNodes : n.box
  /\ \E n \in scNodes : ~n.box

(* Claims about the catalog lookups of modelService *)

\* C17: every lookup returns a value for every name, and for a name that is not in
\* the catalog it returns what the default entry holds
C17_UnknownNameGetsDefault ==
  \A i \in 1..Len(lookups) :
    LET call == lookups[i]
    IN /\ \A k \in 1..Len(call.result) : call.result[k].type # "undefined"
       /\ call.type \notin CatalogNames =>
            call.result = CASE call.method = "getModelPath" -> <<MODEL_MAP["default"]>>
                            [] call.method = "getModelConfig" ->
                                 <<MODEL_SCALES["default"], MODEL_Y_POSITIONS["default"],
                                   MODEL_ROTATIONS["default"]>>
                            [] OTHER -> <<TOP_DOWN_ADJUSTMENTS["default"]>>

\* editor positions, room sizes and item sizes the conversions are compared on
ConvPositions == {-30, 0, 10, 255, 380}
ConvRoomDims == {200, 300, DefaultRoomHeight, DefaultRoomWidth}
ConvItemDims == {40, 70, 120, 240}

\* C18: the world position a move writes to the model for editor position (x, y) is
\* the one the scene builder computes for an item stored at (x, y), both being
\* x * scale - roomWidth * scale / 2 + width * scale / 2 (and the same for z from y
\* and the room's height): on every input, and for the item of every move made
C18_MoveAndLoadAgree ==
  /\ \A e \in ConvPositions, roomDim \in ConvRoomDims, itemDim \in ConvItemDims :
       /\ MoveWorld(e, roomDim, itemDim) = LoadWorld(e, roomDim, itemDim)
       /\ 2 * LoadWorld(e, roomDim, itemDim)
            = (2 * e * Scale100) - (roomDim * Scale100) + (itemDim * Scale100)
  /\ vLastEdit.kind = "move" =>
       LET item == vLastEdit.item[1]
           room == vLastEdit.room[1]
       IN vLastEdit.node = <<LoadWorld(item.x, room.width, item.width),
                             LoadWorld(item.y, room.height, item.height)>>

\* after a move the scene was built again and the model of the moved item stands
\* where the move had put it
C18_Witness ==
  /\ vLastEdit.kind = "move"
  /\ \E n \in scNodes : /\ n.itemId = vLastEdit.item[1].id
                        /\ <<n.x, n.z>> = vLastEdit.node

(* Claims about the edits of the furniture list *)

\* C19: addFurniture(type) appends one item and leaves the items before it as they
\* were; the new item has the size and color of the catalog entry of the type (of
\* the first entry for a type the catalog does not hold), rotation 0, stands
\* centred in the room, and is the selected item after the call
C19_AddAppendsCenteredSelectedItem ==
  [][\A type \in AddTypes :
       addFurniture(type) =>
         LET entries == {furnitureTypes[i] : i \in 1..Len(furnitureTypes)}
             ft == IF \E f \in entries : f.type = type
                   THEN CHOOSE f \in entries : f.type = type
                   ELSE furnitureTypes[1]
             last == Len(furniture) + 1
         IN /\ Len(furniture') = last
            /\ SubSeq(furniture', 1, Len(furniture)) = furniture
            /\ furniture'[last].width = ft.width
            /\ furniture'[last].height = ft.height
            /\ furniture'[last].fill = ft.fill
            /\ furniture'[last].rotation = 0
            /\ 2 * furniture'[last].x = roomConfig.width - ft.width
            /\ 2 * furniture'[last].y = roomConfig.height - ft.height
            /\ selectedId' = furniture'[last].id
            /\ SelectedIndex' = last]_vars

\* C20: an edit of one item (color, rotation, drag, transform in the editor; move
\* and rotate in the viewer) keeps the length of the furniture list, keeps every
\* item's id at its place, and changes the fields of one item at most
C20_EditChangesOneItem ==
  [][/\ (\/ \E color \in FillColors : updateFurnitureColor(color)
         \/ \E degrees \in SliderInputs : RotationSliderChange(degrees)
         \/ Rotate90Click
         \/ \E id \in ItemIds, pos \in DragPositions : onDragEnd(id, pos)
         \/ \E id \in ItemIds, node \in TransformResults : onTransformEnd(id, node))
        => /\ Len(furniture') = Len(furniture)
           /\ \A i \in 1..Len(furniture) : furniture'[i].id = furniture[i].id
           /\ Cardinality({i \in 1..Len(furniture) : furniture'[i] # furniture[i]}) <= 1
     /\ (vDesign # <<>> /\ vDesign' # vDesign)
        => LET old == vDesign[1].furniture
               new == vDesign'[1].furniture
           IN /\ Len(new) = Len(old)
              /\ \A i \in 1..Len(old) : new[i].id = old[i].id
              /\ Cardinality({i \in 1..Len(old) : new[i] # old[i]}) <= 1]_vars

(* Claims about the selection of the 2D editor *)

\* C21: a click on an item makes it the one selected item; a drag commit and a
\* transform commit keep the selection; a click on the stage background clears the
\* selection and leaves the furniture list alone; Delete or Backspace with an item
\* selected removes that item, and only it, and clears the selection
C21_SelectionStateMachine ==
  [][/\ \A id \in ItemIds :
          onSelect(id) => /\ selectedId' = id
                          /\ Cardinality({i \in 1..Len(furniture') :
                                            furniture'[i].id = selectedId'}) = 1
     /\ (\/ \E id \in ItemIds, pos \in DragPositions : onDragEnd(id, pos)
         \/ \E id \in ItemIds, node \in TransformResults : onTransformEnd(id, node))
        => selectedId' = selectedId
     /\ checkDeselect => (selectedId' = NoSel /\ furniture' = furniture)
     /\ (/\ HasSelectedItem
         /\ \E key \in {"Delete", "Backspace"}, target \in KeyTargets :
              EditorKeyDown(key, target))
        => /\ furniture' = RemoveAt(furniture, SelectedIndex)
           /\ selectedId' = NoSel]_vars

(* Claims about the geometry of the items *)

\* C22: in every state every item of the design, in the editor as in the viewer,
\* has non-negative x, y, width and height
C22_GeometryNonNegative ==
  /\ \A i \in 1..Len(furniture) :
       /\ furniture[i].x >= 0 /\ furniture[i].y >= 0
       /\ furniture[i].width >= 0 /\ furniture[i].height >= 0
  /\ vDesign # <<>> =>
       \A i \in 1..Len(vDesign[1].furniture) :
         LET item == vDesign[1].furniture[i]
         IN item.x >= 0 /\ item.y >= 0 /\ item.width >= 0 /\ item.height >= 0

(* Claims about the caches *)

\* C23: once the editor is unmounted, topDownImageCache and modelCache are empty
\* and stay empty, whatever was in flight at the unmount
C23_CachesEmptyAfterTeardown ==
  ~edMounted => (topDownImageCache = {} /\ modelCache = {})

(* Claims about rotation steps *)

\* C24: a rotate step of the viewer (the rotate buttons, the q and e keys) on a
\* selected item whose rotation r is in 0..359 and whose model is in the scene
\* stores (r + d) mod 360, and the rotate-90 button of the editor on a selected
\* item with r in 0..359 stores (r + 90) mod 360; both results are in 0..359
C24_RotateStepWraps ==
  [][/\ \A d \in RotateSteps :
          (/\ vDesign # <<>>
           /\ ViewerSelectedIndex # 0
           /\ vDesign[1].furniture[ViewerSelectedIndex].rotation \in 0..(FullTurn - 1)
           /\ ModelFound(scNodes, selectedModelId)
           /\ \/ RotateClick(d)
              \/ ViewerKeyDown(IF d > 0 THEN "e" ELSE "q", "BODY"))
          => LET r == vDesign[1].furniture[ViewerSelectedIndex].rotation
                 stored == vDesign'[1].furniture[ViewerSelectedIndex].rotation
             IN stored = (r + d) % FullTurn /\ stored \in 0..(FullTurn - 1)
     /\ (/\ HasSelectedItem
         /\ SelectedItem.rotation \in 0..(FullTurn - 1)
         /\ Rotate90Click)
        => LET stored == furniture'[SelectedIndex].rotation
           IN /\ stored = (SelectedItem.rotation + RotateButtonStep) % FullTurn
              /\ stored \in 0..(FullTurn - 1)]_vars

\* a rotate step of the viewer took the sofa from 345 to 0, or the rotate-90 button
\* of the editor took an item from 345 to 75
C24_Witness ==
  \/ /\ vLastEdit.kind = "rotate"
     /\ vLastEdit.item[1].id = 1
     /\ vLastEdit.item[1].rotation = 0
  \/ \E i \in 1..Len(furniture) : furniture[i].rotation = 75

-----------------------------------------------------------------------------
(* Viewer3D: the toolbar (walls, grid, view mode) *)

ViewModes == {"3d", "topDown"}

WallsNotice(newValue) == IF newValue THEN "Walls shown" ELSE "Walls hidden"

GridNotice(newValue) == IF newValue THEN "Grid shown" ELSE "Grid hidden"

ViewModeNotice(mode) ==
  IF mode = "topDown" THEN "Top down view" ELSE "3D perspective view"

\* window.viewer3d.toggleWalls and window.viewer3d.toggleGrid are the functions the
\* scene effect defines: each calls window.viewer3d.toggleWalls (toggleGrid) again,
\* which is itself, before it reaches showInfo, so a call of either never returns
\* and ends when the call stack is exhausted
HandleToggleOutcome == "RangeError"

\* what is left of a toggle handler after its setState call: with the handle
\* installed the call through it throws and showInfo is not reached
ToggleTail(notice) ==
  IF scBuilt
    THEN /\ vThrown' = HandleToggleOutcome
         /\ UNCHANGED vNotice
    ELSE /\ vThrown' = "none"
         /\ vNotice' = notice

\* the walls checkbox: toggleWalls of the component, the render its setShowWalls
\* causes, and the scene effect that depends on showWalls
toggleWalls ==
  /\ ViewerShown
  /\ ViewerEvent
  /\ showWalls' = ~showWalls
  /\ ToggleTail(WallsNotice(~showWalls))
  /\ UNCHANGED <<now, stVars, notTb, showGrid, viewMode>>
  /\ UNCHANGED <<vMounted, vDesignId, vLoading, vError, vDesign, selectedModelId,
                 vFetchCall, vSaveCall, vLastSave, vLastEdit>>
  /\ SceneEffect
  /\ ClickEffect

\* the grid checkbox, in the same way
toggleGrid ==
  /\ ViewerShown
  /\ ViewerEvent
  /\ showGrid' = ~showGrid
  /\ ToggleTail(GridNotice(~showGrid))
  /\ UNCHANGED <<now, stVars, notTb, showWalls, viewMode>>
  /\ UNCHANGED <<vMounted, vDesignId, vLoading, vError, vDesign, selectedModelId,
                 vFetchCall, vSaveCall, vLastSave, vLastEdit>>
  /\ SceneEffect
  /\ ClickEffect

\* a view mode button: the handle's setViewMode only moves the camera and returns;
\* the scene effect runs again when the mode is another one than before
changeViewMode(mode) ==
  /\ ViewerShown
  /\ ViewerEvent
  /\ viewMode' = mode
  /\ vThrown' = "none"
  /\ vNotice' = ViewModeNotice(mode)
  /\ UNCHANGED <<now, stVars, notTb, showWalls, showGrid>>
  /\ UNCHANGED <<vMounted, vDesignId, vLoading, vError, vDesign, selectedModelId,
                 vFetchCall, vSaveCall, vLastSave, vLastEdit>>
  /\ IF mode # viewMode
       THEN SceneEffect /\ ClickEffect
       ELSE UNCHANGED <<scVars>>

\* the route changes (the Back to Editor link, the browser's back button): the
\* component unmounts and the cleanup of the scene effect runs. The cleanup removes
\* the listener and the canvas, deletes window.viewer3d, removes the models and
\* clears the model cache; it does not cancel the frame request of animate, and
\* what a load delivers afterwards goes to a scene the page no longer shows
ViewerUnmount ==
  /\ vMounted
  /\ vMounted' = FALSE
  /\ scBuilt' = FALSE
  /\ scNodes' = {}
  /\ scLoads' = {}
  /\ scSel' = NoSel
  /\ scNew' = FALSE
  /\ clk' = [on |-> FALSE, sel |-> NoSel]
  /\ modelCache' = {}
  /\ UNCHANGED animateLoops
  /\ UNCHANGED <<now, stVars, edVars, svVars, pvVars, rdVars, msVars, preloadPos, tbVars>>
  /\ UNCHANGED <<vDesignId, vLoading, vError, vDesign, selectedModelId, vFetchCall,
                 vSaveCall, vNotice, vLastSave, vLastEdit, vEvents>>

\* the 3D viewer with its toolbar
NextToolbar ==
  \/ ViewerFetchReturn
  \/ \E idx \in 1..MaxItems, ok \in BOOLEAN : LoadModelReturn(idx, ok)
  \/ \E id \in 1..MaxClock : SidebarSelect(id)
  \/ \E direction \in Directions : MoveClick(direction)
  \/ toggleWalls
  \/ toggleGrid
  \/ \E mode \in ViewModes : changeViewMode(mode)
  \/ ViewerUnmount

SpecToolbar == InitViewer /\ [][NextToolbar]_vars

\* C25: a walls or grid toggle request terminates, flips its flag exactly once,
\* emits exactly one notification and leaves the design data unchanged, also when
\* the window.viewer3d handle is installed
C25_ToggleFlipsAndNotifies ==
  [][/\ toggleWalls => /\ vThrown' = "none"
                       /\ showWalls' = ~showWalls
                       /\ vNotice' = WallsNotice(~showWalls)
                       /\ vDesign' = vDesign
     /\ toggleGrid => /\ vThrown' = "none"
                      /\ showGrid' = ~showGrid
                      /\ vNotice' = GridNotice(~showGrid)
                      /\ vDesign' = vDesign]_vars

\* C26: once the models of the design have finished loading, a move or rotate
\* command on the selected item is applied to the stored item and not abandoned
\* for a missing node, also when it directly follows an edit that was applied when
\* every model had loaded
C26_CommandAfterEditIsApplied ==
  [][(/\ vLastEdit.kind \in {"move", "rotate"}
      /\ vLastEdit.pending = {}
      /\ vLastEdit.item[1].id = selectedModelId
      /\ \/ \E direction \in Directions : MoveClick(direction)
         \/ \E degrees \in RotateSteps : RotateClick(degrees))
       => vLastEdit'.kind \in {"move", "rotate"}]_vars

\* C27: once every started generatePreviews run has finished and no generation
\* failed, the preview map holds an entry for the CacheKey of every item of the
\* furniture list
C27_FinishedRunsCoverEveryItem ==
  (/\ edMounted
   /\ pvRuns = <<>>
   /\ pvFailed = {})
    => \A i \in 1..Len(furniture) : CacheKey(furniture[i]) \in modelPreviews

\* C28: a key press whose target is a text input never modifies the furniture list,
\* in the 2D editor as in the 3D viewer
C28_KeysInTextInputsChangeNothing ==
  [][/\ (\E key \in Keys : EditorKeyDown(key, "INPUT")) => furniture' = furniture
     /\ (\E key \in ViewerKeys : ViewerKeyDown(key, "INPUT")) => vDesign' = vDesign]_vars

\* C29: when two createDesign calls were issued before either completed (the call
\* that returns read the store before the design of the other call was written),
\* then after both completed the store holds both new designs under distinct ids
\* and every design it held before
C29_ConcurrentCreatesKeepBoth ==
  [][\A i \in 1..Len(svCalls) :
       LET before == GetDesigns(store)
           after == GetDesigns(store')
           other == svLastCreate[1].id
           holds(ds, id) == \E k \in 1..Len(ds) : ds[k].id = id
       IN (/\ svCalls[i].op = "create"
           /\ createDesignReturn(i)
           /\ userPresent
           /\ svLastCreate # <<>>
           /\ holds(before, other)
           /\ ~holds(svCalls[i].designs, other))
            => /\ Len(after) = Len(before) + 1
               /\ \A k \in 1..Len(before) : holds(after, before[k].id)
               /\ \A k, m \in 1..Len(after) : after[k].id = after[m].id => k = m]_vars

\* C30: at most one render loop is active at any time: while a scene is shown
\* exactly one animate callback keeps requesting the next frame, however often the
\* scene was rebuilt, and after the viewer is unmounted none does
C30_OneRenderLoop ==
  /\ animateLoops <= 1
  /\ (vMounted /\ scBuilt) => animateLoops = 1
  /\ ~vMounted => animateLoops = 0

=============================================================================
